---- MODULE Spec2Model ----
(***************************************************************************)
(* Model of the touch-gated recording core of omiGlass/firmware/src/app.cpp *)
(* (lumina): the touch state machine handleTouchSensor, the audio poll      *)
(* processAudio, the photo capture / chunked upload of loop_app, and the    *)
(* BLE callbacks that write the same globals.                               *)
(*                                                                         *)
(* One step of the model is either one whole pass of loop_app (a tick) or   *)
(* one BLE callback arriving between two ticks.  Time is counted in         *)
(* abstract units of millis(); the timing constants come from config.h,     *)
(* which is not part of the sources, and are held in the record `config`.   *)
(* Levels are percentages in fixed point, hundredths of a percent (10% is   *)
(* 1000).                                                                   *)
(* handleButton and updateLED run at the head of every pass; the power     *)
(* button is a pin the environment drives, every edge of it running the     *)
(* interrupt handler.  The battery task and the power-save / light sleep    *)
(* code write none of the variables below and are not modelled here.        *)
(***************************************************************************)
EXTENDS Integers, Sequences, FiniteSets, TLC

VARIABLES
  now,                      \* last value read from millis()
  config,                   \* the config.h constants in force
  buttonPressed,
  buttonDown,               \* static of handleButton
  buttonPressTime,
  lastButtonTime,           \* static of handleButton
  ledMode,
  bootStartTime,            \* static of updateLED
  powerOffStartTime,        \* static of updateLED
  deviceOff,                \* esp_deep_sleep_start was called
  buttonHeld,               \* the power button pin: the button is down
  touchState,
  lastTouchTime,
  touchRecordingStartTime,
  silenceStartTime,
  microphoneInitialized,
  voiceActivationEnabled,
  listeningForWakeWord,
  recordingCommand,
  currentAudioLevel,
  peakAudioLevel,
  touchAudioAccumIndex,
  audioBufferIndex,
  connected,
  isCapturingPhotos,
  captureInterval,
  lastCaptureTime,
  photoDataUploading,
  fb,
  sent_photo_bytes,
  sent_photo_frames,
  calls,                    \* history: collaborator calls made by the last step, in order
  sessionFlushed,           \* history: the flush block ran since the last touch release
  touchPhotoRequest,        \* history: the Processing step's own capture request is pending
  photoOfSession,           \* history: the frame held was captured for that request
  sessionCaptures,          \* history: take_photo calls since Processing was entered
  scen,                     \* history: position in the level scenario since touch release
  touchSince,               \* history: start of the current run of touched readings, -1 if none
  latePass,                 \* history: parity of the passes made with the clock standing at the horizon
  silentSince,              \* history: first pass of the current run of passes that read a silent level while recording, -1 if none
  resumedAt,                \* history: the pass of the session that last went back to RecordingActive on speech, -1 if none
  tooShortAt,               \* history: the pass of the session that last judged the recording too short, -1 if none
  droppedAudio,             \* history: the flush of the session found session audio with the link down
  uploadTicks,              \* history: passes made since the pass that started the upload in progress or last finished
  heldSince,                \* history: clock value at the press edge of the hold going on, -1 if the button is up
  releasedSince,            \* history: the same for a hold released since the last pass, -1 if none
  heldLong,                 \* history: some hold may have lasted 2000 ms
  heard                     \* history: the block read by the last pass, where the model follows the audio path

vars == <<now, config, touchState, lastTouchTime, touchRecordingStartTime,
          silenceStartTime, microphoneInitialized, voiceActivationEnabled,
          listeningForWakeWord, recordingCommand, currentAudioLevel,
          peakAudioLevel, touchAudioAccumIndex, audioBufferIndex, connected,
          isCapturingPhotos, captureInterval, lastCaptureTime,
          photoDataUploading, fb, sent_photo_bytes, sent_photo_frames,
          calls, sessionFlushed, touchPhotoRequest, photoOfSession,
          sessionCaptures, scen, touchSince, latePass, buttonPressed,
          buttonDown, buttonPressTime, lastButtonTime, ledMode,
          bootStartTime, powerOffStartTime, deviceOff, buttonHeld,
          heldSince, releasedSince, heldLong,
          silentSince, resumedAt, tooShortAt, droppedAudio,
          uploadTicks, heard>>

----------------------------------------------------------------------------
(* Bounds of the model *)

\* the clock stops the device model at this many units
MaxTime == 7
\* clock horizon of the timing model
TimingMaxTime == 11
\* clock horizon of the level scenario
ScenarioMaxTime == 15
\* a tick takes 1..MaxStep units
MaxStep == 2
\* the history counter of captures saturates here
MaxCaptures == 3
\* clock horizon of the upload model
UploadMaxTime == 7
\* clock horizon of the audio model
AudioMaxTime == 6
\* clock horizon of the silence model
SilenceMaxTime == 11
\* clock horizon of the read model
ReadMaxTime == 6
\* clock horizon of the button model
LevelMaxTime == 2
PressMaxTime == 3025
PowerMaxTime == 4000
ButtonMaxTime == 5

----------------------------------------------------------------------------
(* Program constants *)

TOUCH_AUDIO_MAX_BYTES == 192000
\* chunk size of the photo upload
PHOTO_CHUNK == 200
GAIN == 16
NOISE_GATE == 100

\* touch_state_t
TOUCH_IDLE == "TOUCH_IDLE"
TOUCH_DETECTED == "TOUCH_DETECTED"
TOUCH_RECORDING_ACTIVE == "TOUCH_RECORDING_ACTIVE"
TOUCH_RECORDING_SILENCE == "TOUCH_RECORDING_SILENCE"
TOUCH_PROCESSING == "TOUCH_PROCESSING"

TouchStates == {TOUCH_IDLE, TOUCH_DETECTED, TOUCH_RECORDING_ACTIVE,
                TOUCH_RECORDING_SILENCE, TOUCH_PROCESSING}

\* fb == nullptr
NoFrame == 0

\* led_status_t
LED_BOOT_SEQUENCE == "LED_BOOT_SEQUENCE"
LED_NORMAL_OPERATION == "LED_NORMAL_OPERATION"
LED_PHOTO_CAPTURE == "LED_PHOTO_CAPTURE"
LED_POWER_OFF_SEQUENCE == "LED_POWER_OFF_SEQUENCE"

\* sample blocks i2s_read can deliver (<<>>: no data or a read error)
SilentBlock == <<0, 0>>
SoftBlock == <<150, -50>>
LoudBlock == <<1843, -1843>>

\* a block at 6.25% exactly (gained samples +-2048 of 32768) and one above
ThresholdBlock == <<128, -128>>
OverBlock == <<129, -129>>

\* config.h of the device model: sessions two units long, so that whole
\* sessions interleave with the BLE callbacks inside the horizon
DeviceConfig ==
  [debounce |-> 0, silenceDuration |-> 1, minRecording |-> 1,
   activationTimeout |-> 2, silenceThreshold |-> 1000,
   photoInterval |-> 2, audioBufferBytes |-> 96000,
   maxStep |-> 1, horizon |-> MaxTime,
   frameLens |-> {250}, audioReads |-> {<<>>, SilentBlock, LoudBlock},
   touchReadings |-> BOOLEAN, traceReads |-> FALSE,
   lateTicks |-> FALSE, castOverflow |-> "wrap"]

\* config.h of the timing model: the silence timer is shorter than the
\* minimum recording floor, so the "recording too short" branch is live
TimingConfig ==
  [debounce |-> 1, silenceDuration |-> 2, minRecording |-> 4,
   activationTimeout |-> 6, silenceThreshold |-> 1000,
   photoInterval |-> 2, audioBufferBytes |-> 96000,
   maxStep |-> MaxStep,
   horizon |-> TimingMaxTime,
   frameLens |-> {250}, audioReads |-> {<<>>, SilentBlock, LoudBlock},
   touchReadings |-> BOOLEAN, traceReads |-> FALSE,
   lateTicks |-> FALSE, castOverflow |-> "wrap"]

\* config.h of the level scenario: every tick one unit long, a silence
\* duration spanning 4 ticks (3 units from the first silent tick to the
\* fourth), minimum recording 2 units, threshold 10%
ScenarioConfig ==
  [debounce |-> 1, silenceDuration |-> 3, minRecording |-> 2,
   activationTimeout |-> 14, silenceThreshold |-> 1000,
   photoInterval |-> 2, audioBufferBytes |-> 96000,
   maxStep |-> 1, horizon |-> ScenarioMaxTime,
   frameLens |-> {250}, audioReads |-> {<<>>, SilentBlock, LoudBlock},
   touchReadings |-> BOOLEAN, traceReads |-> FALSE,
   lateTicks |-> FALSE, castOverflow |-> "wrap"]

\* the upload model: frames of 1, 200, 201 and 1000 bytes, nobody touches
\* the sensor, the host drives the camera through photo control
UploadConfig ==
  [debounce |-> 1, silenceDuration |-> 1, minRecording |-> 1,
   activationTimeout |-> 2, silenceThreshold |-> 1000,
   photoInterval |-> 2, audioBufferBytes |-> 96000,
   maxStep |-> 1, horizon |-> UploadMaxTime,
   frameLens |-> {1, 200, 201, 1000}, audioReads |-> {<<>>, LoudBlock},
   touchReadings |-> {FALSE}, traceReads |-> FALSE,
   lateTicks |-> FALSE, castOverflow |-> "wrap"]

\* the audio model: blocks of several lengths and levels, a block buffer
\* that does not divide the session buffer
AudioConfig ==
  [debounce |-> 0, silenceDuration |-> 2, minRecording |-> 1,
   activationTimeout |-> 4, silenceThreshold |-> 1000,
   photoInterval |-> 2, audioBufferBytes |-> 128000,
   maxStep |-> 1, horizon |-> AudioMaxTime,
   frameLens |-> {250},
   audioReads |-> {<<>>, <<0>>, SilentBlock, <<0, 0, 0>>, SoftBlock, LoudBlock},
   touchReadings |-> BOOLEAN, traceReads |-> TRUE,
   lateTicks |-> FALSE, castOverflow |-> "wrap"]

\* the silence model: a threshold of 6.25% that a block can hit exactly, a
\* minimum recording longer than the silence duration, and a ceiling far
\* enough for a second silent stretch to end the recording below it
SilenceConfig ==
  [debounce |-> 0, silenceDuration |-> 2, minRecording |-> 4,
   activationTimeout |-> 8, silenceThreshold |-> 625,
   photoInterval |-> 2, audioBufferBytes |-> 96000,
   maxStep |-> MaxStep, horizon |-> SilenceMaxTime,
   frameLens |-> {250},
   audioReads |-> {<<>>, SilentBlock, ThresholdBlock, OverBlock},
   touchReadings |-> BOOLEAN, traceReads |-> TRUE,
   lateTicks |-> FALSE, castOverflow |-> "wrap"]

\* the read model: a block buffer of two samples (4 bytes), and polls that
\* deliver nothing, one sample (a partial read) or two (a full read)
ReadConfig ==
  [debounce |-> 0, silenceDuration |-> 2, minRecording |-> 1,
   activationTimeout |-> 4, silenceThreshold |-> 1000,
   photoInterval |-> 2, audioBufferBytes |-> 4,
   maxStep |-> 1, horizon |-> ReadMaxTime,
   frameLens |-> {250},
   audioReads |-> {<<>>, <<1843>>, SilentBlock, LoudBlock},
   touchReadings |-> BOOLEAN, traceReads |-> TRUE,
   lateTicks |-> FALSE, castOverflow |-> "wrap"]

\* what a build can make of an int16_t conversion that overflows
CastOutcomes == {"wrap", "saturate", "wide"}

\* samples of the level model: both sides of the noise gate (6 and 7 away
\* from the mean give 96 and 112 after the gain), the last sample whose
\* gained value an int16_t holds (2047), the first it does not (2048), and
\* louder ones
LevelSamples == {-2500, -2048, -7, 0, 6, 1000, 2047, 2048, 2500}

\* the level model: blocks of one and two such samples, nobody touches the
\* sensor
LevelConfig ==
  [debounce |-> 0, silenceDuration |-> 2, minRecording |-> 1,
   activationTimeout |-> 4, silenceThreshold |-> 1000,
   photoInterval |-> 2, audioBufferBytes |-> 4,
   maxStep |-> 1, horizon |-> LevelMaxTime,
   frameLens |-> {250},
   audioReads |-> {<<a>> : a \in LevelSamples}
                    \cup {<<a, b>> : a, b \in LevelSamples},
   touchReadings |-> {FALSE}, traceReads |-> TRUE,
   lateTicks |-> FALSE, castOverflow |-> "wrap"]

\* the power model, in milliseconds: the button code compares with 50 and
\* 2000, updateLED with 1500 and 800.  A recording lasts at least a second
\* and no frame comes from the camera but one of 250 bytes
PowerConfig ==
  [debounce |-> 0, silenceDuration |-> 1000, minRecording |-> 1000,
   activationTimeout |-> 2000, silenceThreshold |-> 1000,
   photoInterval |-> 1000, audioBufferBytes |-> 4,
   maxStep |-> 1, horizon |-> PowerMaxTime,
   frameLens |-> {250}, audioReads |-> {<<>>},
   touchReadings |-> BOOLEAN, traceReads |-> FALSE,
   lateTicks |-> FALSE, castOverflow |-> "wrap"]

\* the same with nobody touching the sensor
PressConfig ==
  [PowerConfig EXCEPT !.touchReadings = {FALSE}, !.horizon = PressMaxTime]

\* the lengths of a pass in the power model: loop_app ends with delay(20)
\* while a photo is uploading and with delay(50) otherwise; a pass that
\* blinks, sends the session audio or sleeps takes far longer
PowerSteps == {25, 1000}

\* the device model with a horizon of one session, for the runs in which
\* the button interrupt fires as well; the ceiling lies one unit above the
\* earliest end by silence
ButtonConfig ==
  [DeviceConfig EXCEPT !.horizon = ButtonMaxTime, !.activationTimeout = 3]

\* the device model with the passes of loop_app going on after the clock
\* horizon wherever a pass does not read the clock
LinkConfig == [DeviceConfig EXCEPT !.lateTicks = TRUE]

TOUCH_DEBOUNCE_MS == config.debounce
TOUCH_SILENCE_DURATION_MS == config.silenceDuration
TOUCH_MIN_RECORDING_MS == config.minRecording
TOUCH_ACTIVATION_TIMEOUT == config.activationTimeout
SILENCE_THRESHOLD == config.silenceThreshold
PHOTO_CAPTURE_INTERVAL_MS == config.photoInterval
\* sizeof(audioBuffer) = I2S_READ_LEN * sizeof(int16_t)
AudioBufferBytes == config.audioBufferBytes

----------------------------------------------------------------------------
(* Inputs of a tick *)

\* frame lengths esp_camera_fb_get can deliver in this model
FrameLens == config.frameLens
\* outcome of esp_camera_fb_get: no frame, or a frame of that many bytes
CaptureOutcomes == {NoFrame} \cup FrameLens

\* sample blocks i2s_read can deliver in this model
AudioReads == config.audioReads

\* the scenario's level sequence, in percent
ScenarioLevels == <<0, 0, 0, 90, 90, 0, 0, 0, 0>>

----------------------------------------------------------------------------
(* Helpers *)

\* unsigned long a - b.  The clock of the model never wraps, so the
\* difference modulo 2^32 is the plain difference; a timestamp set to
\* millis() - x is kept as that (possibly negative) representative
Elapsed(a, b) == a - b

Min(a, b) == IF a < b THEN a ELSE b

\* C++ integer conversion and division truncate toward zero
TruncDiv(a, b) == IF a >= 0 THEN a \div b ELSE -((-a) \div b)

Abs(x) == IF x < 0 THEN -x ELSE x

RECURSIVE SumSeq(_)
SumSeq(q) == IF q = <<>> THEN 0 ELSE Head(q) + SumSeq(Tail(q))

\* floor of the square root, by bisection on lo..hi
RECURSIVE SqrtBetween(_, _, _)
SqrtBetween(n, lo, hi) ==
  IF lo >= hi THEN lo
  ELSE LET mid == (lo + hi + 1) \div 2
       IN IF mid * mid <= n THEN SqrtBetween(n, mid, hi)
                            ELSE SqrtBetween(n, lo, mid - 1)

ISqrt(n) == SqrtBetween(n, 0, 46340)

\* one collaborator call of the log
Call(op, a, b) == [op |-> op, a |-> a, b |-> b]

BoolInt(b) == IF b THEN 1 ELSE 0

----------------------------------------------------------------------------
(* The globals as one record, so that the handlers of a tick compose *)

Cur ==
  [touchState |-> touchState, lastTouchTime |-> lastTouchTime,
   touchRecordingStartTime |-> touchRecordingStartTime,
   silenceStartTime |-> silenceStartTime,
   microphoneInitialized |-> microphoneInitialized,
   voiceActivationEnabled |-> voiceActivationEnabled,
   listeningForWakeWord |-> listeningForWakeWord,
   recordingCommand |-> recordingCommand,
   currentAudioLevel |-> currentAudioLevel,
   peakAudioLevel |-> peakAudioLevel,
   touchAudioAccumIndex |-> touchAudioAccumIndex,
   audioBufferIndex |-> audioBufferIndex,
   connected |-> connected, isCapturingPhotos |-> isCapturingPhotos,
   captureInterval |-> captureInterval, lastCaptureTime |-> lastCaptureTime,
   photoDataUploading |-> photoDataUploading, fb |-> fb,
   sent_photo_bytes |-> sent_photo_bytes,
   sent_photo_frames |-> sent_photo_frames,
   calls |-> <<>>, sessionFlushed |-> sessionFlushed,
   touchPhotoRequest |-> touchPhotoRequest,
   photoOfSession |-> photoOfSession,
   sessionCaptures |-> sessionCaptures,
   buttonPressed |-> buttonPressed, buttonDown |-> buttonDown,
   buttonPressTime |-> buttonPressTime, lastButtonTime |-> lastButtonTime,
   ledMode |-> ledMode, bootStartTime |-> bootStartTime,
   powerOffStartTime |-> powerOffStartTime, deviceOff |-> deviceOff]

Commit(s) ==
  /\ touchState' = s.touchState
  /\ lastTouchTime' = s.lastTouchTime
  /\ touchRecordingStartTime' = s.touchRecordingStartTime
  /\ silenceStartTime' = s.silenceStartTime
  /\ microphoneInitialized' = s.microphoneInitialized
  /\ voiceActivationEnabled' = s.voiceActivationEnabled
  /\ listeningForWakeWord' = s.listeningForWakeWord
  /\ recordingCommand' = s.recordingCommand
  /\ currentAudioLevel' = s.currentAudioLevel
  /\ peakAudioLevel' = s.peakAudioLevel
  /\ touchAudioAccumIndex' = s.touchAudioAccumIndex
  /\ audioBufferIndex' = s.audioBufferIndex
  /\ connected' = s.connected
  /\ isCapturingPhotos' = s.isCapturingPhotos
  /\ captureInterval' = s.captureInterval
  /\ lastCaptureTime' = s.lastCaptureTime
  /\ photoDataUploading' = s.photoDataUploading
  /\ fb' = s.fb
  /\ sent_photo_bytes' = s.sent_photo_bytes
  /\ sent_photo_frames' = s.sent_photo_frames
  /\ calls' = s.calls
  /\ sessionFlushed' = s.sessionFlushed
  /\ touchPhotoRequest' = s.touchPhotoRequest
  /\ photoOfSession' = s.photoOfSession
  /\ sessionCaptures' = s.sessionCaptures
  /\ buttonPressed' = s.buttonPressed
  /\ buttonDown' = s.buttonDown
  /\ buttonPressTime' = s.buttonPressTime
  /\ lastButtonTime' = s.lastButtonTime
  /\ ledMode' = s.ledMode
  /\ bootStartTime' = s.bootStartTime
  /\ powerOffStartTime' = s.powerOffStartTime
  /\ deviceOff' = s.deviceOff

IsRecording(st) == st \in {TOUCH_RECORDING_ACTIVE, TOUCH_RECORDING_SILENCE}

----------------------------------------------------------------------------
(* sendAudioData: nothing is sent when the link is down; otherwise the data *)
(* goes out in 200-byte notifications inside the call                       *)

sendAudioData(s, length) ==
  IF ~s.connected THEN s
  ELSE [s EXCEPT !.calls = Append(@, Call("sendAudioData", length, 0))]

----------------------------------------------------------------------------
(* handleTouchSensor, one operator per case of the switch; t is millis(),   *)
(* touched is isTouchDetected()                                             *)

\* the safety timeout that ends both recording cases
SafetyTimeout(s, t) ==
  IF Elapsed(t, s.touchRecordingStartTime) >= TOUCH_ACTIVATION_TIMEOUT
  THEN [s EXCEPT !.touchState = TOUCH_PROCESSING, !.sessionCaptures = 0]
  ELSE s


\* TouchIdle with a touch starting the recording at once
TouchIdle_SkipDetected(s, t, touched) ==
  IF touched /\ Elapsed(t, s.lastTouchTime) > TOUCH_DEBOUNCE_MS
  THEN [s EXCEPT !.touchState = TOUCH_RECORDING_ACTIVE, !.lastTouchTime = t,
                 !.touchRecordingStartTime = t, !.silenceStartTime = 0,
                 !.sessionFlushed = FALSE]
  ELSE s

\* TouchIdle without the debounce test
TouchIdle_NoDebounce(s, t, touched) ==
  IF touched
  THEN [s EXCEPT !.touchState = TOUCH_DETECTED, !.lastTouchTime = t,
                 !.ledMode = LED_PHOTO_CAPTURE]
  ELSE s

\* TouchIdle waiting until the touch has been sensed for longer than the
\* debounce interval
TouchIdle_HeldTouch(s, t, touched) ==
  IF touched /\ touchSince # -1 /\ Elapsed(t, touchSince) > TOUCH_DEBOUNCE_MS
  THEN [s EXCEPT !.touchState = TOUCH_DETECTED, !.lastTouchTime = t,
                 !.ledMode = LED_PHOTO_CAPTURE]
  ELSE s

TouchIdle(s, t, touched) ==
  IF touched /\ Elapsed(t, s.lastTouchTime) > TOUCH_DEBOUNCE_MS
  THEN [s EXCEPT !.touchState = TOUCH_DETECTED, !.lastTouchTime = t,
                 !.ledMode = LED_PHOTO_CAPTURE]
  ELSE s


\* TouchDetected requesting the photo at touch release, before the recording
TouchDetected_RequestPhoto(s, t, touched) ==
  IF ~touched
  THEN LET r == [s EXCEPT !.touchState = TOUCH_RECORDING_ACTIVE,
                          !.touchRecordingStartTime = t,
                          !.ledMode = LED_NORMAL_OPERATION,
                          !.silenceStartTime = 0,
                          !.sessionFlushed = FALSE]
           q == IF ~r.recordingCommand
                THEN [r EXCEPT !.recordingCommand = TRUE,
                               !.audioBufferIndex = 0,
                               !.touchAudioAccumIndex = 0,
                               !.listeningForWakeWord = FALSE]
                ELSE r
       IN IF ~q.isCapturingPhotos
          THEN [q EXCEPT !.isCapturingPhotos = TRUE, !.captureInterval = 0,
                         !.touchPhotoRequest = TRUE]
          ELSE q
  ELSE s

\* TouchDetected starting the session with the silence timer as it stands
TouchDetected_StaleTimer(s, t, touched) ==
  IF ~touched
  THEN LET r == [s EXCEPT !.touchState = TOUCH_RECORDING_ACTIVE,
                          !.touchRecordingStartTime = t,
                          !.ledMode = LED_NORMAL_OPERATION,
                          !.sessionFlushed = FALSE]
       IN IF ~r.recordingCommand
          THEN [r EXCEPT !.recordingCommand = TRUE,
                         !.audioBufferIndex = 0,
                         !.touchAudioAccumIndex = 0,
                         !.listeningForWakeWord = FALSE]
          ELSE r
  ELSE s

TouchDetected(s, t, touched) ==
  IF ~touched
  THEN LET r == [s EXCEPT !.touchState = TOUCH_RECORDING_ACTIVE,
                          !.touchRecordingStartTime = t,
                          !.ledMode = LED_NORMAL_OPERATION,
                          !.silenceStartTime = 0,
                          !.sessionFlushed = FALSE]
       IN IF ~r.recordingCommand
          THEN [r EXCEPT !.recordingCommand = TRUE,
                         !.audioBufferIndex = 0,
                         !.touchAudioAccumIndex = 0,
                         !.listeningForWakeWord = FALSE]
          ELSE r
  ELSE s

\* TouchRecordingActive dropping the session when the sensor is touched again
TouchRecordingActive_CancelOnTouch(s, t, touched) ==
  IF touched THEN [s EXCEPT !.touchState = TOUCH_IDLE]
  ELSE LET r == IF s.currentAudioLevel > SILENCE_THRESHOLD
                THEN [s EXCEPT !.silenceStartTime = 0]
                ELSE IF s.silenceStartTime = 0
                     THEN [s EXCEPT !.silenceStartTime = t,
                                    !.touchState = TOUCH_RECORDING_SILENCE]
                     ELSE s
       IN SafetyTimeout(r, t)

\* TouchRecordingActive taking a level equal to the threshold for speech
TouchRecordingActive_EqualIsSpeech(s, t, touched) ==
  LET r == IF s.currentAudioLevel >= SILENCE_THRESHOLD
           THEN [s EXCEPT !.silenceStartTime = 0]
           ELSE IF s.silenceStartTime = 0
                THEN [s EXCEPT !.silenceStartTime = t,
                               !.touchState = TOUCH_RECORDING_SILENCE]
                ELSE s
  IN SafetyTimeout(r, t)

TouchRecordingActive(s, t, touched) ==
  LET r == IF s.currentAudioLevel > SILENCE_THRESHOLD
           THEN [s EXCEPT !.silenceStartTime = 0]
           ELSE IF s.silenceStartTime = 0
                THEN [s EXCEPT !.silenceStartTime = t,
                               !.touchState = TOUCH_RECORDING_SILENCE]
                ELSE s
  IN SafetyTimeout(r, t)


\* TouchRecordingSilence with the safety timeout forgotten
TouchRecordingSilence_NoTimeout(s, t, touched) ==
  LET silenceDuration == Elapsed(t, s.silenceStartTime)
      totalRecordingTime == Elapsed(t, s.touchRecordingStartTime)
  IN IF s.currentAudioLevel > SILENCE_THRESHOLD
     THEN [s EXCEPT !.touchState = TOUCH_RECORDING_ACTIVE,
                    !.silenceStartTime = 0]
     ELSE IF silenceDuration >= TOUCH_SILENCE_DURATION_MS
          THEN IF totalRecordingTime >= TOUCH_MIN_RECORDING_MS
               THEN [s EXCEPT !.touchState = TOUCH_PROCESSING,
                              !.sessionCaptures = 0]
               ELSE [s EXCEPT !.touchState = TOUCH_RECORDING_ACTIVE,
                              !.silenceStartTime = 0]
          ELSE s

\* TouchRecordingSilence without the minimum recording floor
TouchRecordingSilence_NoFloor(s, t, touched) ==
  LET silenceDuration == Elapsed(t, s.silenceStartTime)
      r == IF s.currentAudioLevel > SILENCE_THRESHOLD
           THEN [s EXCEPT !.touchState = TOUCH_RECORDING_ACTIVE,
                          !.silenceStartTime = 0]
           ELSE IF silenceDuration >= TOUCH_SILENCE_DURATION_MS
                THEN [s EXCEPT !.touchState = TOUCH_PROCESSING,
                               !.sessionCaptures = 0]
                ELSE s
  IN SafetyTimeout(r, t)

\* TouchRecordingSilence leaving a too short recording in the silence state
TouchRecordingSilence_StayOnShort(s, t, touched) ==
  LET silenceDuration == Elapsed(t, s.silenceStartTime)
      totalRecordingTime == Elapsed(t, s.touchRecordingStartTime)
      r == IF s.currentAudioLevel > SILENCE_THRESHOLD
           THEN [s EXCEPT !.touchState = TOUCH_RECORDING_ACTIVE,
                          !.silenceStartTime = 0]
           ELSE IF silenceDuration >= TOUCH_SILENCE_DURATION_MS
                   /\ totalRecordingTime >= TOUCH_MIN_RECORDING_MS
                THEN [s EXCEPT !.touchState = TOUCH_PROCESSING,
                               !.sessionCaptures = 0]
                ELSE s
  IN SafetyTimeout(r, t)

\* TouchRecordingSilence with resumed speech not clearing the silence timer
TouchRecordingSilence_NoResume(s, t, touched) ==
  LET silenceDuration == Elapsed(t, s.silenceStartTime)
      totalRecordingTime == Elapsed(t, s.touchRecordingStartTime)
      r == IF silenceDuration >= TOUCH_SILENCE_DURATION_MS
           THEN IF totalRecordingTime >= TOUCH_MIN_RECORDING_MS
                THEN [s EXCEPT !.touchState = TOUCH_PROCESSING,
                               !.sessionCaptures = 0]
                ELSE [s EXCEPT !.touchState = TOUCH_RECORDING_ACTIVE,
                               !.silenceStartTime = 0]
           ELSE s
  IN SafetyTimeout(r, t)

\* TouchRecordingSilence going back to RecordingActive on speech with the
\* silence timer left running
TouchRecordingSilence_KeepTimer(s, t, touched) ==
  LET silenceDuration == Elapsed(t, s.silenceStartTime)
      totalRecordingTime == Elapsed(t, s.touchRecordingStartTime)
      r == IF s.currentAudioLevel > SILENCE_THRESHOLD
           THEN [s EXCEPT !.touchState = TOUCH_RECORDING_ACTIVE]
           ELSE IF silenceDuration >= TOUCH_SILENCE_DURATION_MS
                THEN IF totalRecordingTime >= TOUCH_MIN_RECORDING_MS
                     THEN [s EXCEPT !.touchState = TOUCH_PROCESSING,
                                    !.sessionCaptures = 0]
                     ELSE [s EXCEPT !.touchState = TOUCH_RECORDING_ACTIVE,
                                    !.silenceStartTime = 0]
                ELSE s
  IN SafetyTimeout(r, t)

\* TouchRecordingSilence sending a too short recording back to
\* RecordingActive with the expired silence timer left as it is
TouchRecordingSilence_ShortKeepsTimer(s, t, touched) ==
  LET silenceDuration == Elapsed(t, s.silenceStartTime)
      totalRecordingTime == Elapsed(t, s.touchRecordingStartTime)
      r == IF s.currentAudioLevel > SILENCE_THRESHOLD
           THEN [s EXCEPT !.touchState = TOUCH_RECORDING_ACTIVE,
                          !.silenceStartTime = 0]
           ELSE IF silenceDuration >= TOUCH_SILENCE_DURATION_MS
                THEN IF totalRecordingTime >= TOUCH_MIN_RECORDING_MS
                     THEN [s EXCEPT !.touchState = TOUCH_PROCESSING,
                                    !.sessionCaptures = 0]
                     ELSE [s EXCEPT !.touchState = TOUCH_RECORDING_ACTIVE]
                ELSE s
  IN SafetyTimeout(r, t)

TouchRecordingSilence(s, t, touched) ==
  LET silenceDuration == Elapsed(t, s.silenceStartTime)
      totalRecordingTime == Elapsed(t, s.touchRecordingStartTime)
      r == IF s.currentAudioLevel > SILENCE_THRESHOLD
           THEN [s EXCEPT !.touchState = TOUCH_RECORDING_ACTIVE,
                          !.silenceStartTime = 0]
           ELSE IF silenceDuration >= TOUCH_SILENCE_DURATION_MS
                THEN IF totalRecordingTime >= TOUCH_MIN_RECORDING_MS
                     THEN [s EXCEPT !.touchState = TOUCH_PROCESSING,
                                    !.sessionCaptures = 0]
                     ELSE [s EXCEPT !.touchState = TOUCH_RECORDING_ACTIVE,
                                    !.silenceStartTime = 0]
                ELSE s
  IN SafetyTimeout(r, t)

\* the flush block of the Processing case
\* FlushSession giving up an empty session without asking for the photo
FlushSession_SkipEmpty(s) ==
  LET a == [s EXCEPT !.recordingCommand = FALSE]
      b == IF a.touchAudioAccumIndex > 0
           THEN sendAudioData(a, a.touchAudioAccumIndex)
           ELSE IF a.audioBufferIndex > 0
                THEN sendAudioData(a, a.audioBufferIndex)
                ELSE a
      c == [b EXCEPT !.audioBufferIndex = 0, !.touchAudioAccumIndex = 0,
                     !.listeningForWakeWord = FALSE,
                     !.sessionFlushed = TRUE]
  IN IF ~c.isCapturingPhotos /\ s.touchAudioAccumIndex > 0
     THEN [c EXCEPT !.isCapturingPhotos = TRUE, !.captureInterval = 0,
                    !.touchPhotoRequest = TRUE]
     ELSE c

\* FlushSession keeping the session for a later pass when the link is down
FlushSession_RetryWhenDown(s) ==
  IF ~s.connected /\ s.touchAudioAccumIndex > 0 THEN s
  ELSE
  LET a == [s EXCEPT !.recordingCommand = FALSE]
      b == IF a.touchAudioAccumIndex > 0
           THEN sendAudioData(a, a.touchAudioAccumIndex)
           ELSE IF a.audioBufferIndex > 0
                THEN sendAudioData(a, a.audioBufferIndex)
                ELSE a
      c == [b EXCEPT !.audioBufferIndex = 0, !.touchAudioAccumIndex = 0,
                     !.listeningForWakeWord = FALSE,
                     !.sessionFlushed = TRUE]
  IN IF ~c.isCapturingPhotos
     THEN [c EXCEPT !.isCapturingPhotos = TRUE, !.captureInterval = 0,
                    !.touchPhotoRequest = TRUE]
     ELSE c

FlushSession(s) ==
  LET a == [s EXCEPT !.recordingCommand = FALSE]
      b == IF a.touchAudioAccumIndex > 0
           THEN sendAudioData(a, a.touchAudioAccumIndex)
           ELSE IF a.audioBufferIndex > 0
                THEN sendAudioData(a, a.audioBufferIndex)
                ELSE a
      c == [b EXCEPT !.audioBufferIndex = 0, !.touchAudioAccumIndex = 0,
                     !.listeningForWakeWord = FALSE,
                     !.sessionFlushed = TRUE]
  IN IF ~c.isCapturingPhotos
     THEN [c EXCEPT !.isCapturingPhotos = TRUE, !.captureInterval = 0,
                    !.touchPhotoRequest = TRUE]
     ELSE c


\* TouchProcessing returning to idle without waiting for the capture
TouchProcessing_IdleAtOnce(s, t, touched) ==
  LET r == IF s.recordingCommand THEN FlushSession(s) ELSE s
  IN [r EXCEPT !.touchState = TOUCH_IDLE,
                    !.ledMode = LED_NORMAL_OPERATION]

TouchProcessing(s, t, touched) ==
  LET r == IF s.recordingCommand THEN FlushSession(s) ELSE s
  IN IF ~r.isCapturingPhotos
     THEN [r EXCEPT !.touchState = TOUCH_IDLE,
                    !.ledMode = LED_NORMAL_OPERATION]
     ELSE r

handleTouchSensor(s, t, touched) ==
  CASE s.touchState = TOUCH_IDLE -> TouchIdle(s, t, touched)
    [] s.touchState = TOUCH_DETECTED -> TouchDetected(s, t, touched)
    [] s.touchState = TOUCH_RECORDING_ACTIVE -> TouchRecordingActive(s, t, touched)
    [] s.touchState = TOUCH_RECORDING_SILENCE -> TouchRecordingSilence(s, t, touched)
    [] s.touchState = TOUCH_PROCESSING -> TouchProcessing(s, t, touched)


----------------------------------------------------------------------------
(* processAudio: block is what i2s_read delivered, <<>> for nothing *)

\* the conversion of a float to int16_t.  A value with its fraction cut off
\* that an int16_t can hold converts to itself.  For any other value the
\* conversion is undefined; what comes out is a matter of the build, and
\* the model takes the build's way from config.castOverflow: the low 16
\* bits of the integer ("wrap"), the nearest int16_t ("saturate"), or the
\* integer itself, kept in a wider register or folded into the float
\* arithmetic that follows ("wide")
Int16Cast(x) ==
  IF x \in -32768..32767 THEN x
  ELSE CASE config.castOverflow = "wrap" -> ((x + 32768) % 65536) - 32768
         [] config.castOverflow = "saturate" ->
              (IF x > 32767 THEN 32767 ELSE -32768)
         [] config.castOverflow = "wide" -> x

\* (int16_t)((sample - dc_offset) * GAIN) with dc_offset = sum / n
GainedSample(sample, sum, n) ==
  Int16Cast(TruncDiv((sample * n - sum) * GAIN, n))

\* the samples that pass the noise gate, after DC removal and gain
ValidSamples(block) ==
  LET n == Len(block)
      sum == SumSeq(block)
      proc == [i \in 1..n |-> GainedSample(block[i], sum, n)]
  IN SelectSeq(proc, LAMBDA x : Abs(x) > NOISE_GATE)

\* sum_squares / valid_samples, the integer part: the quotients of the
\* squares plus the quotient of their remainders, which is the same number
\* and stays below 2^31 where the sum of the squares does not
MeanSquare(q) ==
  LET k == Len(q)
  IN SumSeq([i \in 1..k |-> (q[i] * q[i]) \div k])
       + SumSeq([i \in 1..k |-> (q[i] * q[i]) % k]) \div k

\* sqrt(sum_squares / valid_samples) / 32768 * 100, in hundredths of a percent
AudioLevel(block) ==
  LET valid == ValidSamples(block)
  IN IF Len(valid) > 0
     THEN (ISqrt(MeanSquare(valid)) * 10000) \div 32768
     ELSE 0

\* Accumulate copying a whole block buffer whatever room is left
Accumulate_NoCap(s) ==
  IF s.recordingCommand /\ IsRecording(s.touchState)
  THEN [s EXCEPT !.touchAudioAccumIndex = @ + AudioBufferBytes]
  ELSE s

\* the accumulation of the block into the session buffer
Accumulate(s) ==
  IF s.recordingCommand /\ IsRecording(s.touchState)
  THEN LET bytesToCopy == Min(AudioBufferBytes,
                              TOUCH_AUDIO_MAX_BYTES - s.touchAudioAccumIndex)
       IN IF bytesToCopy > 0
          THEN [s EXCEPT !.touchAudioAccumIndex = @ + bytesToCopy]
          ELSE s
  ELSE s

\* the block holds samples and all of them are 0
AllZero(block) == Len(block) > 0 /\ \A i \in DOMAIN block : block[i] = 0

\* the log entry of an i2s_read; where the model follows the audio path
\* (config.traceReads) it records the samples read and whether all are 0
ReadCall(block) ==
  IF config.traceReads
  THEN Call("i2s_read", Len(block), BoolInt(AllZero(block)))
  ELSE Call("i2s_read", 0, 0)

\* processAudio taking an all-zero block for no data
processAudio_SkipSilentBlock(s, block) ==
  IF ~s.microphoneInitialized \/ ~s.voiceActivationEnabled THEN s
  ELSE LET p == [s EXCEPT !.calls = Append(@, ReadCall(block))]
       IN IF Len(block) = 0 \/ AllZero(block) THEN p
          ELSE LET level == AudioLevel(block)
                   r == [p EXCEPT !.currentAudioLevel = level,
                                  !.peakAudioLevel =
                                     IF level > @ THEN level ELSE @]
               IN Accumulate(r)

\* processAudio letting the peak follow the current level
processAudio_PeakFollows(s, block) ==
  IF ~s.microphoneInitialized \/ ~s.voiceActivationEnabled THEN s
  ELSE LET p == [s EXCEPT !.calls = Append(@, ReadCall(block))]
       IN IF Len(block) = 0 THEN p
          ELSE LET level == AudioLevel(block)
               IN Accumulate([p EXCEPT !.currentAudioLevel = level,
                                       !.peakAudioLevel = level])

\* processAudio giving up the poll once the session buffer is full
processAudio_StopWhenFull(s, block) ==
  IF ~s.microphoneInitialized \/ ~s.voiceActivationEnabled THEN s
  ELSE IF s.touchAudioAccumIndex = TOUCH_AUDIO_MAX_BYTES THEN s
  ELSE LET p == [s EXCEPT !.calls = Append(@, ReadCall(block))]
       IN IF Len(block) = 0 THEN p
          ELSE LET level == AudioLevel(block)
                   r == [p EXCEPT !.currentAudioLevel = level,
                                  !.peakAudioLevel =
                                     IF level > @ THEN level ELSE @]
               IN Accumulate(r)

\* processAudio taking a poll without data for a block of silence
processAudio_EmptyIsSilence(s, block) ==
  IF ~s.microphoneInitialized \/ ~s.voiceActivationEnabled THEN s
  ELSE LET p == [s EXCEPT !.calls = Append(@, ReadCall(block))]
           level == IF Len(block) = 0 THEN 0 ELSE AudioLevel(block)
           r == [p EXCEPT !.currentAudioLevel = level,
                          !.peakAudioLevel = IF level > @ THEN level ELSE @]
       IN Accumulate(r)

processAudio(s, block) ==
  IF ~s.microphoneInitialized \/ ~s.voiceActivationEnabled THEN s
  ELSE LET p == [s EXCEPT !.calls = Append(@, ReadCall(block))]
       IN IF Len(block) = 0 THEN p
          ELSE LET level == AudioLevel(block)
                   r == [p EXCEPT !.currentAudioLevel = level,
                                  !.peakAudioLevel =
                                     IF level > @ THEN level ELSE @]
               IN Accumulate(r)

----------------------------------------------------------------------------
(* Camera *)

\* esp_camera_fb_return(fb); fb = nullptr
ReturnFrame(s) ==
  IF s.fb # NoFrame
  THEN [s EXCEPT !.fb = NoFrame, !.photoOfSession = FALSE,
                 !.calls = Append(@, Call("fb_return", s.fb, 0))]
  ELSE s

\* take_photo: cap is what esp_camera_fb_get returns; the result of the
\* call is fb # NoFrame afterwards
take_photo(s, cap) ==
  LET r == ReturnFrame(s)
  IN [r EXCEPT !.fb = cap,
               !.photoOfSession = (cap # NoFrame) /\ r.touchPhotoRequest,
               !.touchPhotoRequest = FALSE,
               !.sessionCaptures = IF r.touchState = TOUCH_PROCESSING
                                   THEN Min(@ + 1, MaxCaptures) ELSE @,
               !.calls = Append(@, Call("take_photo", BoolInt(cap # NoFrame),
                                        BoolInt(r.touchPhotoRequest)))]


\* CapturePhoto clearing the single-shot request only when the capture worked
CapturePhoto_ClearOnSuccess(s, t, cap) ==
  IF s.isCapturingPhotos /\ ~s.photoDataUploading /\ s.connected
     /\ (s.captureInterval = 0
         \/ Elapsed(t, s.lastCaptureTime) >= s.captureInterval)
  THEN LET b == take_photo(s, cap)
       IN IF b.fb # NoFrame
          THEN [b EXCEPT !.photoDataUploading = TRUE,
                         !.sent_photo_bytes = 0,
                         !.sent_photo_frames = 0,
                         !.lastCaptureTime = t,
                         !.isCapturingPhotos =
                            IF s.captureInterval = 0 THEN FALSE ELSE @]
          ELSE b
  ELSE s

\* CapturePhoto starting the upload whether or not take_photo got a frame
CapturePhoto_UploadAnyway(s, t, cap) ==
  IF s.isCapturingPhotos /\ ~s.photoDataUploading /\ s.connected
     /\ (s.captureInterval = 0
         \/ Elapsed(t, s.lastCaptureTime) >= s.captureInterval)
  THEN LET a == IF s.captureInterval = 0
                THEN [s EXCEPT !.isCapturingPhotos = FALSE]
                ELSE s
           b == take_photo(a, cap)
       IN [b EXCEPT !.photoDataUploading = TRUE,
                    !.sent_photo_bytes = 0,
                    !.sent_photo_frames = 0,
                    !.lastCaptureTime = t]
  ELSE s

\* loop_app: "Check if it's time to capture a photo"
CapturePhoto(s, t, cap) ==
  IF s.isCapturingPhotos /\ ~s.photoDataUploading /\ s.connected
     /\ (s.captureInterval = 0
         \/ Elapsed(t, s.lastCaptureTime) >= s.captureInterval)
  THEN LET a == IF s.captureInterval = 0
                THEN [s EXCEPT !.isCapturingPhotos = FALSE]
                ELSE s
           b == take_photo(a, cap)
       IN IF b.fb # NoFrame
          THEN [b EXCEPT !.photoDataUploading = TRUE,
                         !.sent_photo_bytes = 0,
                         !.sent_photo_frames = 0,
                         !.lastCaptureTime = t]
          ELSE b
  ELSE s

\* UploadChunk flushing all that remains of the frame in one tick
UploadChunk_WholeFrame(s) ==
  IF s.photoDataUploading /\ s.fb # NoFrame
  THEN LET remaining == s.fb - s.sent_photo_bytes
       IN IF remaining > 0
          THEN [s EXCEPT !.sent_photo_bytes = @ + remaining,
                         !.sent_photo_frames = @ + 1,
                         !.calls = Append(@, Call("photoChunk",
                                                  s.sent_photo_frames,
                                                  remaining))]
          ELSE ReturnFrame(
                 [s EXCEPT !.photoDataUploading = FALSE,
                           !.calls = Append(@, Call("photoEnd", 0, 0))])
  ELSE s

\* UploadChunk sending the end marker in the tick of the last data chunk
UploadChunk_EndWithLastChunk(s) ==
  IF s.photoDataUploading /\ s.fb # NoFrame
  THEN LET remaining == s.fb - s.sent_photo_bytes
           bytes_to_copy == IF remaining > PHOTO_CHUNK
                            THEN PHOTO_CHUNK ELSE remaining
           r == IF remaining > 0
                THEN [s EXCEPT !.sent_photo_bytes = @ + bytes_to_copy,
                               !.sent_photo_frames = @ + 1,
                               !.calls = Append(@, Call("photoChunk",
                                                        s.sent_photo_frames,
                                                        bytes_to_copy))]
                ELSE s
       IN IF remaining <= PHOTO_CHUNK
          THEN ReturnFrame(
                 [r EXCEPT !.photoDataUploading = FALSE,
                           !.calls = Append(@, Call("photoEnd", 0, 0))])
          ELSE r
  ELSE s

\* loop_app: "If uploading, send chunks over BLE"
\* UploadChunk waiting for the link before it sends anything
UploadChunk_WaitForLink(s) ==
  IF s.photoDataUploading /\ s.fb # NoFrame /\ s.connected
  THEN LET remaining == s.fb - s.sent_photo_bytes
       IN IF remaining > 0
          THEN LET bytes_to_copy == IF remaining > PHOTO_CHUNK
                                    THEN PHOTO_CHUNK ELSE remaining
               IN [s EXCEPT !.sent_photo_bytes = @ + bytes_to_copy,
                            !.sent_photo_frames = @ + 1,
                            !.calls = Append(@, Call("photoChunk",
                                                     s.sent_photo_frames,
                                                     bytes_to_copy))]
          ELSE ReturnFrame(
                 [s EXCEPT !.photoDataUploading = FALSE,
                           !.calls = Append(@, Call("photoEnd", 0, 0))])
  ELSE s

UploadChunk(s) ==
  IF s.photoDataUploading /\ s.fb # NoFrame
  THEN LET remaining == s.fb - s.sent_photo_bytes
       IN IF remaining > 0
          THEN LET bytes_to_copy == IF remaining > PHOTO_CHUNK
                                    THEN PHOTO_CHUNK ELSE remaining
               IN [s EXCEPT !.sent_photo_bytes = @ + bytes_to_copy,
                            !.sent_photo_frames = @ + 1,
                            !.calls = Append(@, Call("photoChunk",
                                                     s.sent_photo_frames,
                                                     bytes_to_copy))]
          ELSE ReturnFrame(
                 [s EXCEPT !.photoDataUploading = FALSE,
                           !.calls = Append(@, Call("photoEnd", 0, 0))])
  ELSE s

----------------------------------------------------------------------------
(* BLE callbacks *)

\* handlePhotoControl forgetting the frame it holds without returning it
handlePhotoControl_DropFrame(s, controlValue) ==
  IF controlValue = -1
  THEN [s EXCEPT !.photoDataUploading = FALSE,
                 !.sent_photo_bytes = 0,
                 !.sent_photo_frames = 0,
                 !.fb = NoFrame, !.photoOfSession = FALSE,
                 !.isCapturingPhotos = TRUE, !.captureInterval = 0]
  ELSE IF controlValue = 0
  THEN [s EXCEPT !.isCapturingPhotos = FALSE,
                 !.photoDataUploading = FALSE,
                 !.sent_photo_bytes = 0,
                 !.sent_photo_frames = 0,
                 !.captureInterval = 0,
                 !.touchPhotoRequest = FALSE,
                 !.fb = NoFrame, !.photoOfSession = FALSE]
  ELSE IF controlValue >= 5 /\ controlValue <= 300
  THEN [s EXCEPT !.photoDataUploading = FALSE,
                 !.sent_photo_bytes = 0,
                 !.sent_photo_frames = 0,
                 !.fb = NoFrame, !.photoOfSession = FALSE,
                 !.captureInterval = PHOTO_CAPTURE_INTERVAL_MS,
                 !.isCapturingPhotos = TRUE,
                 !.lastCaptureTime = now - PHOTO_CAPTURE_INTERVAL_MS]
  ELSE s

\* handlePhotoControl arming the interval capture beside a running upload
handlePhotoControl_IntervalKeepsUpload(s, controlValue) ==
  IF controlValue = -1
  THEN [ReturnFrame([s EXCEPT !.photoDataUploading = FALSE,
                              !.sent_photo_bytes = 0,
                              !.sent_photo_frames = 0])
          EXCEPT !.isCapturingPhotos = TRUE, !.captureInterval = 0]
  ELSE IF controlValue = 0
  THEN ReturnFrame([s EXCEPT !.isCapturingPhotos = FALSE,
                             !.photoDataUploading = FALSE,
                             !.sent_photo_bytes = 0,
                             !.sent_photo_frames = 0,
                             !.captureInterval = 0,
                             !.touchPhotoRequest = FALSE])
  ELSE IF controlValue >= 5 /\ controlValue <= 300
  THEN [s EXCEPT !.captureInterval = PHOTO_CAPTURE_INTERVAL_MS,
                 !.isCapturingPhotos = TRUE,
                 !.lastCaptureTime = now - PHOTO_CAPTURE_INTERVAL_MS]
  ELSE s

handlePhotoControl(s, controlValue) ==
  IF controlValue = -1
  THEN [ReturnFrame([s EXCEPT !.photoDataUploading = FALSE,
                              !.sent_photo_bytes = 0,
                              !.sent_photo_frames = 0])
          EXCEPT !.isCapturingPhotos = TRUE, !.captureInterval = 0]
  ELSE IF controlValue = 0
  THEN ReturnFrame([s EXCEPT !.isCapturingPhotos = FALSE,
                             !.photoDataUploading = FALSE,
                             !.sent_photo_bytes = 0,
                             !.sent_photo_frames = 0,
                             !.captureInterval = 0,
                             !.touchPhotoRequest = FALSE])
  ELSE IF controlValue >= 5 /\ controlValue <= 300
  THEN [ReturnFrame([s EXCEPT !.photoDataUploading = FALSE,
                              !.sent_photo_bytes = 0,
                              !.sent_photo_frames = 0])
          EXCEPT !.captureInterval = PHOTO_CAPTURE_INTERVAL_MS,
                 !.isCapturingPhotos = TRUE,
                 !.lastCaptureTime = now - PHOTO_CAPTURE_INTERVAL_MS]
  ELSE s

startVoiceActivation(s) ==
  IF ~s.microphoneInitialized THEN s
  ELSE [s EXCEPT !.voiceActivationEnabled = TRUE,
                 !.listeningForWakeWord = FALSE,
                 !.recordingCommand = FALSE,
                 !.audioBufferIndex = 0]

\* stopVoiceActivation ending the touch session as well
stopVoiceActivation_EndsSession(s) ==
  [s EXCEPT !.voiceActivationEnabled = FALSE,
            !.listeningForWakeWord = FALSE,
            !.recordingCommand = FALSE,
            !.audioBufferIndex = 0,
            !.touchState = TOUCH_IDLE]

stopVoiceActivation(s) ==
  [s EXCEPT !.voiceActivationEnabled = FALSE,
            !.listeningForWakeWord = FALSE,
            !.recordingCommand = FALSE,
            !.audioBufferIndex = 0]

startRecordingCommand(s) ==
  IF ~s.voiceActivationEnabled THEN s
  ELSE [s EXCEPT !.listeningForWakeWord = FALSE,
                 !.recordingCommand = TRUE,
                 !.audioBufferIndex = 0]

handleAudioControl(s, controlValue) ==
  CASE controlValue = 1 -> startVoiceActivation(s)
    [] controlValue = 0 -> stopVoiceActivation(s)
    [] controlValue = 2 -> startRecordingCommand(s)
    [] OTHER -> s

\* the values of the parameter of handlePhotoControl, an int8_t
Int8Values == -128..127

\* control bytes the host can write (one unrecognised value each)
PhotoControlValues == {-1, 0, 5, 3}
AudioControlValues == {0, 1, 2, 3}

----------------------------------------------------------------------------
(* The level scenario, followed since the last touch release: scen = k     *)
(* when handleTouchSensor has run k times in the session and the level it   *)
(* read from currentAudioLevel on those ticks was the first k entries of    *)
(* ScenarioLevels; -1 when the run is not in the scenario                   *)

RoundedPercent(level) == (level + 50) \div 100

ScenarioNext(pre, post) ==
  IF pre.touchState = TOUCH_DETECTED /\ post.touchState = TOUCH_RECORDING_ACTIVE
  THEN 0
  ELSE IF scen \in 0..(Len(ScenarioLevels) - 1) /\ IsRecording(pre.touchState)
          /\ RoundedPercent(pre.currentAudioLevel) = ScenarioLevels[scen + 1]
  THEN scen + 1
  ELSE -1

----------------------------------------------------------------------------
(* Specification *)

InitWith(cfg) ==
  /\ now = 0
  /\ config = cfg
  /\ touchState = TOUCH_IDLE
  /\ lastTouchTime = 0
  /\ touchRecordingStartTime = 0
  /\ silenceStartTime = 0
  /\ microphoneInitialized \in BOOLEAN
  /\ voiceActivationEnabled = microphoneInitialized
  /\ listeningForWakeWord = FALSE
  /\ recordingCommand = FALSE
  /\ currentAudioLevel = 0
  /\ peakAudioLevel = 0
  /\ touchAudioAccumIndex = 0
  /\ audioBufferIndex = 0
  /\ connected = FALSE
  /\ isCapturingPhotos = FALSE
  /\ captureInterval = 0
  /\ lastCaptureTime = 0
  /\ photoDataUploading = FALSE
  /\ fb = NoFrame
  /\ sent_photo_bytes = 0
  /\ sent_photo_frames = 0
  /\ calls = <<>>
  /\ sessionFlushed = FALSE
  /\ touchPhotoRequest = FALSE
  /\ photoOfSession = FALSE
  /\ sessionCaptures = 0
  /\ scen = -1
  /\ touchSince = -1
  /\ latePass = FALSE
  /\ buttonPressed = FALSE
  /\ buttonDown = FALSE
  /\ buttonPressTime = 0
  /\ lastButtonTime = 0
  /\ ledMode = LED_BOOT_SEQUENCE
  /\ bootStartTime = 0
  /\ powerOffStartTime = 0
  /\ deviceOff = FALSE
  /\ buttonHeld = FALSE
  /\ heldSince = -1
  /\ releasedSince = -1
  /\ heldLong = FALSE
  /\ silentSince = -1
  /\ resumedAt = -1
  /\ tooShortAt = -1
  /\ droppedAudio = FALSE
  /\ uploadTicks = 0
  /\ heard = <<>>

Init == InitWith(DeviceConfig)

TimingInit == InitWith(TimingConfig)

ScenarioInit == InitWith(ScenarioConfig)

\* the capture block of loop_app will call take_photo
WillCapture(s, t) ==
  /\ s.isCapturingPhotos /\ ~s.photoDataUploading /\ s.connected
  /\ (s.captureInterval = 0
      \/ Elapsed(t, s.lastCaptureTime) >= s.captureInterval)

\* isTouchDetected is read in Idle and Detected only; a run of touched
\* readings keeps the time of its first reading
TouchSinceNext(t, touched) ==
  IF touched /\ touchState \in {TOUCH_IDLE, TOUCH_DETECTED}
  THEN (IF touchSince = -1 THEN t ELSE touchSince)
  ELSE -1

\* the run of passes whose handler read a silent level while recording: it
\* starts with the first such pass and ends with a pass that reads speech
\* or with the start of a new session
SilentSinceNext(pre, post, t) ==
  IF IsRecording(pre.touchState)
  THEN IF pre.currentAudioLevel > SILENCE_THRESHOLD THEN -1
       ELSE IF silentSince = -1 THEN t ELSE silentSince
  ELSE IF IsRecording(post.touchState) THEN -1 ELSE silentSince

\* the pass that took the machine back from RecordingSilence to
\* RecordingActive on a level above the threshold; forgotten when a new
\* session starts
ResumedAtNext(pre, post, t) ==
  IF pre.touchState = TOUCH_DETECTED /\ post.touchState = TOUCH_RECORDING_ACTIVE
  THEN -1
  ELSE IF pre.touchState = TOUCH_RECORDING_SILENCE
          /\ post.touchState = TOUCH_RECORDING_ACTIVE
          /\ pre.currentAudioLevel > SILENCE_THRESHOLD
  THEN t
  ELSE resumedAt

\* the pass that sent a silent recording back to RecordingActive as too
\* short; forgotten when a new session starts
TooShortAtNext(pre, post, t) ==
  IF pre.touchState = TOUCH_DETECTED /\ post.touchState = TOUCH_RECORDING_ACTIVE
  THEN -1
  ELSE IF pre.touchState = TOUCH_RECORDING_SILENCE
          /\ post.touchState = TOUCH_RECORDING_ACTIVE
          /\ pre.currentAudioLevel <= SILENCE_THRESHOLD
  THEN t
  ELSE tooShortAt

\* the flush block of Processing ran on a non-empty session buffer while
\* the link was down; forgotten when a new session starts
DroppedAudioNext(pre, post) ==
  IF pre.touchState = TOUCH_DETECTED /\ post.touchState = TOUCH_RECORDING_ACTIVE
  THEN FALSE
  ELSE IF pre.touchState = TOUCH_PROCESSING /\ pre.recordingCommand
  THEN ~pre.connected /\ pre.touchAudioAccumIndex > 0
  ELSE droppedAudio

\* the passes an upload has taken: counted from the pass after the one whose
\* capture block set photoDataUploading, kept when the upload ends
UploadTicksNext(pre, captured) ==
  IF pre.photoDataUploading THEN uploadTicks + 1
  ELSE IF captured.photoDataUploading THEN 0
  ELSE uploadTicks

\* handleButton: t is millis(), pin is !digitalRead(POWER_BUTTON_PIN), the
\* level of the button when the function reads it
handleButton(s, t, pin) ==
  IF ~s.buttonPressed THEN s
  ELSE IF Elapsed(t, s.lastButtonTime) < 50
  THEN [s EXCEPT !.buttonPressed = FALSE]
  ELSE LET r ==
         IF pin /\ ~s.buttonDown
         THEN [s EXCEPT !.buttonPressTime = t, !.buttonDown = TRUE,
                        !.lastButtonTime = t]
         ELSE IF ~pin /\ s.buttonDown
         THEN LET pressDuration == Elapsed(t, s.buttonPressTime)
                  q == [s EXCEPT !.buttonDown = FALSE, !.lastButtonTime = t]
              IN IF pressDuration >= 2000
                 THEN [q EXCEPT !.ledMode = LED_POWER_OFF_SEQUENCE]
                 ELSE q
         ELSE s
       IN [r EXCEPT !.buttonPressed = FALSE]

\* shutdownDevice: esp_deep_sleep_start does not return
shutdownDevice(s) ==
  [s EXCEPT !.isCapturingPhotos = FALSE, !.deviceOff = TRUE]

\* updateLED: the boot blink ends after 1500 ms, the power-off blink ends
\* after 800 ms in shutdownDevice; the other modes leave the LED off
updateLED(s, t) ==
  IF s.ledMode = LED_BOOT_SEQUENCE
  THEN LET b == IF s.bootStartTime = 0 THEN t ELSE s.bootStartTime
       IN IF Elapsed(t, b) < 1500
          THEN [s EXCEPT !.bootStartTime = b]
          ELSE [s EXCEPT !.ledMode = LED_NORMAL_OPERATION,
                         !.bootStartTime = 0]
  ELSE IF s.ledMode = LED_POWER_OFF_SEQUENCE
  THEN LET p == IF s.powerOffStartTime = 0 THEN t ELSE s.powerOffStartTime
       IN IF Elapsed(t, p) < 800
          THEN [s EXCEPT !.powerOffStartTime = p]
          ELSE shutdownDevice([s EXCEPT !.powerOffStartTime = p])
  ELSE s

\* the rest of the pass after updateLED: the capture block and the upload
\* block, which a pass that went to deep sleep does not reach
CaptureAndUpload(s, t, cap) ==
  IF s.deviceOff THEN s ELSE UploadChunk(CapturePhoto(s, t, cap))

\* the holds of the power button.  An edge between two passes happened at
\* some moment between their clock values: a hold began no earlier than the
\* clock value standing at its press edge and was over no later than the
\* first pass after its release edge.  heldLong is set by the pass at which
\* a hold, so measured, can have lasted 2000 ms
HeldLongNext(t) ==
  \/ heldLong
  \/ heldSince # -1 /\ Elapsed(t, heldSince) >= 2000
  \/ releasedSince # -1 /\ Elapsed(t, releasedSince) >= 2000

\* an edge of the button while handleButton runs, after it has read the
\* pin: a press begins a hold at this pass, a release ends the hold
HeldSinceNext(t, edge) ==
  IF edge THEN (IF buttonHeld THEN -1 ELSE t) ELSE heldSince

\* a pass in Processing with a single-shot request reads no clock value:
\* the model lets such passes go on at the horizon, the clock standing
ClockFree ==
  /\ config.lateTicks
  /\ touchState = TOUCH_PROCESSING
  /\ captureInterval = 0

\* LoopApp polling the microphone before it runs the touch state machine
LoopApp_AudioFirst(d, touched, block, edge) ==
  /\ ~deviceOff
  /\ now + d <= config.horizon \/ ClockFree
  /\ LET t == Min(now + d, config.horizon)
         s0 == handleButton(Cur, t, buttonHeld)
         s1 == processAudio(s0, block)
         s2 == handleTouchSensor(s1, t, touched)
         s3 == updateLED(s2, t)
     IN \E cap \in (IF WillCapture(s3, t) /\ ~s3.deviceOff
                    THEN CaptureOutcomes ELSE {NoFrame}) :
          /\ Commit(CaptureAndUpload(s3, t, cap))
          /\ uploadTicks' = UploadTicksNext(Cur, CapturePhoto(s3, t, cap))
          /\ scen' = ScenarioNext(Cur, s2)
          /\ silentSince' = SilentSinceNext(Cur, s2, t)
          /\ resumedAt' = ResumedAtNext(Cur, s2, t)
          /\ tooShortAt' = TooShortAtNext(Cur, s2, t)
          /\ droppedAudio' = DroppedAudioNext(s1, s2)
          /\ heldLong' = HeldLongNext(t)
          /\ heldSince' = HeldSinceNext(t, edge)
  /\ buttonHeld' = (IF edge THEN ~buttonHeld ELSE buttonHeld)
  /\ releasedSince' = -1
  /\ heard' = IF config.traceReads THEN block ELSE <<>>
  /\ touchSince' = TouchSinceNext(now + d, touched)
  /\ now' = Min(now + d, config.horizon)
  /\ latePass' = IF now + d > config.horizon THEN ~latePass ELSE latePass
  /\ UNCHANGED config

\* one pass of loop_app: d is the time since the last pass, the other
\* inputs are what the sensors deliver where the pass reads them; edge says
\* that the button changes while handleButton runs, after the function has
\* read the pin, so that the flag the interrupt sets is cleared by the
\* function's last statement
LoopApp(d, touched, block, edge) ==
  /\ ~deviceOff
  /\ now + d <= config.horizon \/ ClockFree
  /\ LET t == Min(now + d, config.horizon)
         s0 == handleButton(Cur, t, buttonHeld)
         s1 == handleTouchSensor(s0, t, touched)
         s2 == processAudio(s1, block)
         s3 == updateLED(s2, t)
     IN \E cap \in (IF WillCapture(s3, t) /\ ~s3.deviceOff
                    THEN CaptureOutcomes ELSE {NoFrame}) :
          /\ Commit(CaptureAndUpload(s3, t, cap))
          /\ uploadTicks' = UploadTicksNext(Cur, CapturePhoto(s3, t, cap))
          /\ scen' = ScenarioNext(Cur, s1)
          /\ silentSince' = SilentSinceNext(Cur, s1, t)
          /\ resumedAt' = ResumedAtNext(Cur, s1, t)
          /\ tooShortAt' = TooShortAtNext(Cur, s1, t)
          /\ droppedAudio' = DroppedAudioNext(Cur, s1)
          /\ heldLong' = HeldLongNext(t)
          /\ heldSince' = HeldSinceNext(t, edge)
  /\ buttonHeld' = (IF edge THEN ~buttonHeld ELSE buttonHeld)
  /\ releasedSince' = -1
  /\ heard' = IF config.traceReads THEN block ELSE <<>>
  /\ touchSince' = TouchSinceNext(now + d, touched)
  /\ now' = Min(now + d, config.horizon)
  /\ latePass' = IF now + d > config.horizon THEN ~latePass ELSE latePass
  /\ UNCHANGED config

Tick ==
  \E d \in 1..config.maxStep,
     touched \in (IF touchState \in {TOUCH_IDLE, TOUCH_DETECTED}
                  THEN config.touchReadings ELSE {FALSE}),
     block \in (IF microphoneInitialized /\ voiceActivationEnabled
                THEN AudioReads ELSE {<<>>}) :
    LoopApp(d, touched, block, FALSE)

onConnect ==
  /\ ~deviceOff
  /\ ~connected
  /\ Commit([Cur EXCEPT !.connected = TRUE])
  /\ UNCHANGED <<now, config, scen, touchSince, latePass, buttonHeld,
                 heldSince, releasedSince, heldLong,
                 silentSince, resumedAt, tooShortAt, droppedAudio,
                 uploadTicks, heard>>

onDisconnect ==
  /\ ~deviceOff
  /\ connected
  /\ Commit([Cur EXCEPT !.connected = FALSE])
  /\ UNCHANGED <<now, config, scen, touchSince, latePass, buttonHeld,
                 heldSince, releasedSince, heldLong,
                 silentSince, resumedAt, tooShortAt, droppedAudio,
                 uploadTicks, heard>>

PhotoControlWrite ==
  /\ ~deviceOff
  /\ connected
  /\ \E v \in PhotoControlValues :
       /\ Commit(handlePhotoControl(Cur, v))
       /\ uploadTicks' = IF handlePhotoControl(Cur, v).photoDataUploading
                         THEN uploadTicks ELSE 0
  /\ UNCHANGED <<now, config, scen, touchSince, latePass, buttonHeld,
                 heldSince, releasedSince, heldLong,
                 silentSince, resumedAt, tooShortAt, droppedAudio, heard>>

AudioControlWrite ==
  /\ ~deviceOff
  /\ connected
  /\ \E v \in AudioControlValues : Commit(handleAudioControl(Cur, v))
  /\ UNCHANGED <<now, config, scen, touchSince, latePass, buttonHeld,
                 heldSince, releasedSince, heldLong,
                 silentSince, resumedAt, tooShortAt, droppedAudio,
                 uploadTicks, heard>>

\* the button interrupt: it sets the flag and touches nothing else
buttonISR ==
  /\ ~deviceOff
  /\ Commit([Cur EXCEPT !.buttonPressed = TRUE])
  /\ UNCHANGED <<now, config, scen, touchSince, latePass, buttonHeld,
                 heldSince, releasedSince, heldLong,
                 silentSince, resumedAt, tooShortAt, droppedAudio,
                 uploadTicks, heard>>

\* the button goes down between two passes; the edge runs buttonISR
pressButton ==
  /\ ~deviceOff /\ ~buttonHeld
  /\ buttonHeld' = TRUE
  /\ heldSince' = now
  /\ Commit([Cur EXCEPT !.buttonPressed = TRUE])
  /\ UNCHANGED <<now, config, scen, touchSince, latePass,
                 releasedSince, heldLong,
                 silentSince, resumedAt, tooShortAt, droppedAudio,
                 uploadTicks, heard>>

\* the button comes up between two passes; the edge runs buttonISR
releaseButton ==
  /\ ~deviceOff /\ buttonHeld
  /\ buttonHeld' = FALSE
  /\ heldSince' = -1
  /\ releasedSince' = IF releasedSince = -1 THEN heldSince
                      ELSE Min(releasedSince, heldSince)
  /\ Commit([Cur EXCEPT !.buttonPressed = TRUE])
  /\ UNCHANGED <<now, config, scen, touchSince, latePass, heldLong,
                 silentSince, resumedAt, tooShortAt, droppedAudio,
                 uploadTicks, heard>>

Next == Tick \/ onConnect \/ onDisconnect \/ PhotoControlWrite \/ AudioControlWrite

Spec == Init /\ [][Next]_vars

\* the touch machine with the link coming and going, no control writes
TimingNext == Tick \/ onConnect \/ onDisconnect

TimingSpec == TimingInit /\ [][TimingNext]_vars

ScenarioSpec == ScenarioInit /\ [][TimingNext]_vars

\* the camera driven by the host: ticks, the link, photo control writes
UploadInit == InitWith(UploadConfig)

UploadNext == Tick \/ onConnect \/ onDisconnect \/ PhotoControlWrite

UploadSpec == UploadInit /\ [][UploadNext]_vars

\* the audio path: ticks, the link, audio control writes
AudioInit == InitWith(AudioConfig)

AudioNext == Tick \/ onConnect \/ onDisconnect \/ AudioControlWrite

AudioSpec == AudioInit /\ [][AudioNext]_vars

\* the silence rule: the touch machine with levels around the threshold
SilenceInit == InitWith(SilenceConfig)

SilenceSpec == SilenceInit /\ [][TimingNext]_vars

\* the microphone read: polls that fill the block buffer or part of it
ReadInit == InitWith(ReadConfig)

ReadSpec == ReadInit /\ [][TimingNext]_vars

\* the level computation under each way a build can convert an
\* overflowing float to int16_t
LevelInit ==
  \E c \in CastOutcomes : InitWith([LevelConfig EXCEPT !.castOverflow = c])

LevelSpec == LevelInit /\ [][TimingNext]_vars

\* every context that runs beside the tick: the BLE callbacks and the
\* button interrupt
ButtonInit == InitWith(ButtonConfig)

ButtonNext ==
  \/ Tick \/ onConnect \/ onDisconnect
  \/ PhotoControlWrite \/ AudioControlWrite \/ buttonISR

ButtonSpec == ButtonInit /\ [][ButtonNext]_vars

\* the power button: passes of 25 and 1000 ms, the button going down
\* and up between them or while handleButton runs
PowerInit == InitWith(PowerConfig)

PowerTick ==
  \E d \in PowerSteps,
     touched \in (IF touchState \in {TOUCH_IDLE, TOUCH_DETECTED}
                  THEN config.touchReadings ELSE {FALSE}),
     edge \in (IF buttonPressed THEN BOOLEAN ELSE {FALSE}) :
    /\ d >= (IF photoDataUploading THEN 20 ELSE 50)
    /\ LoopApp(d, touched, <<>>, edge)

\* the button and the touch sensor, no host
PowerNext == PowerTick \/ pressButton \/ releaseButton

PowerSpec == PowerInit /\ [][PowerNext]_vars

\* the button and the host driving the camera, no touch
PressInit == InitWith(PressConfig)

PressNext ==
  \/ PowerTick \/ onConnect \/ onDisconnect \/ PhotoControlWrite
  \/ pressButton \/ releaseButton

PressSpec == PressInit /\ [][PressNext]_vars

\* loop() is called again and again: ticks keep running; nothing is
\* assumed of the link
LinkInit == InitWith(LinkConfig)

\* a pass of loop_app can be made: the clock has room, or the pass reads no
\* clock value
TickPossible == now + 1 <= config.horizon \/ ClockFree

\* what a pass of loop_app does to the clock and to latePass.  The steps of
\* TimingNext that change now or latePass are the Tick steps, every Tick
\* step is a Pass step, and Pass is enabled exactly when Tick is, so weak
\* fairness of Pass on these two variables is weak fairness of Tick.
Pass ==
  /\ TickPossible
  /\ \E d \in 1..config.maxStep :
       /\ now' = Min(now + d, config.horizon)
       /\ latePass' = IF now + d > config.horizon THEN ~latePass ELSE latePass

LinkSpec == LinkInit /\ [][TimingNext]_vars /\ WF_<<now, latePass>>(Pass)


----------------------------------------------------------------------------
(* Properties *)

\* a tick happened: only loop_app advances the clock
TickStep == now' > now

HasCall(c, op) == \E i \in DOMAIN c : c[i].op = op

\* the capture made for the Processing step's request failed in the last step
FailedSessionCapture(c) ==
  \E i \in DOMAIN c : c[i].op = "take_photo" /\ c[i].a = 0 /\ c[i].b = 1

\* C1: RecordingActive is entered only from Detected (then a new session
\* starts at this tick) or back from RecordingSilence of the same session
\* (its start time is kept); never from Idle or Processing.
C1_ActiveOnlyAfterDetected ==
  [][/\ (touchState' = TOUCH_RECORDING_ACTIVE
         /\ touchState # TOUCH_RECORDING_ACTIVE)
        => touchState \in {TOUCH_DETECTED, TOUCH_RECORDING_SILENCE}
     /\ (touchState' = TOUCH_RECORDING_ACTIVE
         /\ touchState = TOUCH_DETECTED)
        => touchRecordingStartTime' = now'
     /\ (touchState' = TOUCH_RECORDING_ACTIVE
         /\ touchState = TOUCH_RECORDING_SILENCE)
        => touchRecordingStartTime' = touchRecordingStartTime]_vars

\* a session back in RecordingActive from RecordingSilence: without a
\* microphone the level stays 0, so the tick after the release went to silence
C1_Witness ==
  /\ ~microphoneInitialized
  /\ touchState = TOUCH_RECORDING_ACTIVE
  /\ touchRecordingStartTime < now
  /\ lastTouchTime < touchRecordingStartTime

\* C2: a tick that finds the machine recording (active or silence) with
\* now - touchRecordingStartTime >= TOUCH_ACTIVATION_TIMEOUT leaves it in
\* Processing, whatever the level and the silence timer.
C2_SafetyCeiling ==
  [][(TickStep /\ IsRecording(touchState)
      /\ Elapsed(now', touchRecordingStartTime) >= TOUCH_ACTIVATION_TIMEOUT)
     => touchState' = TOUCH_PROCESSING]_vars

\* Processing just entered at the ceiling although the silence timer was
\* not running long enough (or not at all)
C2_Witness ==
  /\ touchState = TOUCH_PROCESSING
  /\ recordingCommand
  /\ Elapsed(now, touchRecordingStartTime) >= TOUCH_ACTIVATION_TIMEOUT
  /\ (silenceStartTime = 0
      \/ Elapsed(now, silenceStartTime) < TOUCH_SILENCE_DURATION_MS)

\* C3: below the safety ceiling, RecordingSilence -> Processing is taken
\* only with the silence timer >= TOUCH_SILENCE_DURATION_MS and the total
\* recording time >= TOUCH_MIN_RECORDING_MS.
C3_SilenceRule ==
  [][(touchState = TOUCH_RECORDING_SILENCE /\ touchState' = TOUCH_PROCESSING
      /\ Elapsed(now', touchRecordingStartTime) < TOUCH_ACTIVATION_TIMEOUT)
     => /\ Elapsed(now', silenceStartTime) >= TOUCH_SILENCE_DURATION_MS
        /\ Elapsed(now', touchRecordingStartTime) >= TOUCH_MIN_RECORDING_MS]_vars

\* Processing just entered by the silence rule, below the ceiling
C3_Witness ==
  /\ touchState = TOUCH_PROCESSING
  /\ recordingCommand
  /\ Elapsed(now, touchRecordingStartTime) < TOUCH_ACTIVATION_TIMEOUT
  /\ Elapsed(now, silenceStartTime) >= TOUCH_SILENCE_DURATION_MS
  /\ Elapsed(now, touchRecordingStartTime) >= TOUCH_MIN_RECORDING_MS

\* the case of C4: a tick in RecordingSilence, silence timer expired, total
\* recording time below the floor and below the ceiling
TooShortCase ==
  /\ TickStep
  /\ touchState = TOUCH_RECORDING_SILENCE
  /\ Elapsed(now', silenceStartTime) >= TOUCH_SILENCE_DURATION_MS
  /\ Elapsed(now', touchRecordingStartTime) < TOUCH_MIN_RECORDING_MS
  /\ Elapsed(now', touchRecordingStartTime) < TOUCH_ACTIVATION_TIMEOUT

\* C4 as claimed: in the too-short case the machine remains in
\* RecordingSilence after the tick.
C4_RemainsInSilence ==
  [][TooShortCase => touchState' = TOUCH_RECORDING_SILENCE]_vars

\* C4 amended: in the too-short case the machine keeps recording but goes
\* back to RecordingActive with the silence timer cleared.
C4_BackToActive ==
  [][TooShortCase => /\ touchState' = TOUCH_RECORDING_ACTIVE
                     /\ silenceStartTime' = 0]_vars

\* back in RecordingActive with the silence duration elapsed since the
\* release and the floor not reached; without a microphone the level is 0
\* throughout, so this is the too-short branch and not resumed speech
C4_Witness ==
  /\ ~microphoneInitialized
  /\ touchState = TOUCH_RECORDING_ACTIVE
  /\ silenceStartTime = 0
  /\ Elapsed(now, touchRecordingStartTime) > TOUCH_SILENCE_DURATION_MS
  /\ Elapsed(now, touchRecordingStartTime) < TOUCH_MIN_RECORDING_MS

\* C5: starting in RecordingActive with the handler seeing the levels
\* 0,0,0,90,90,0,0,0,0 on successive ticks (threshold 10%, a silence
\* duration reached on the 4th silent tick, a minimum recording of 2 ticks),
\* the machine is recording after each of the first 8 ticks (in silence
\* after ticks 1-3, active after ticks 4-5, in silence after ticks 6-8) and
\* enters Processing on tick 9, the last of the 4 trailing zeros.
C5_Scenario ==
  /\ scen \in 0..(Len(ScenarioLevels) - 1) => IsRecording(touchState)
  /\ scen \in {1, 2, 3, 6, 7, 8} => touchState = TOUCH_RECORDING_SILENCE
  /\ scen \in {0, 4, 5} => touchState = TOUCH_RECORDING_ACTIVE
  /\ scen = Len(ScenarioLevels) => touchState = TOUCH_PROCESSING

\* the whole sequence has been fed and the machine has just entered Processing
C5_Witness ==
  /\ scen = Len(ScenarioLevels)
  /\ touchState = TOUCH_PROCESSING
  /\ recordingCommand

\* C6: Idle -> Detected is taken only when more than TOUCH_DEBOUNCE_MS has
\* passed since lastTouchTime, which is the time of the last accepted touch
\* (it is written by that transition alone); a tick in Idle inside the
\* debounce window changes neither.
C6_Debounce ==
  [][/\ (touchState = TOUCH_IDLE /\ touchState' = TOUCH_DETECTED)
        => /\ Elapsed(now', lastTouchTime) > TOUCH_DEBOUNCE_MS
           /\ lastTouchTime' = now'
     /\ lastTouchTime' # lastTouchTime
        => (touchState = TOUCH_IDLE /\ touchState' = TOUCH_DETECTED)
     /\ (TickStep /\ touchState = TOUCH_IDLE
         /\ Elapsed(now', lastTouchTime) <= TOUCH_DEBOUNCE_MS)
        => touchState' = TOUCH_IDLE]_vars

\* a second touch accepted, later than the debounce interval after the first
C6_Witness ==
  /\ touchState = TOUCH_DETECTED
  /\ lastTouchTime = now
  /\ touchRecordingStartTime > 0
  /\ Elapsed(now, touchRecordingStartTime) > TOUCH_DEBOUNCE_MS

C8_ExactlyOneCapture ==
  [][(touchState = TOUCH_PROCESSING /\ touchState' = TOUCH_IDLE)
     => sessionCaptures' = 1]_vars

\* C9: the capture request of a session is made only after its flush, and
\* the capture it triggers comes after every audio send of that tick and
\* before the photo's first chunk.
C9_FlushBeforeCapture ==
  /\ touchPhotoRequest => (sessionFlushed /\ touchState = TOUCH_PROCESSING)
  /\ \A i \in DOMAIN calls :
       (calls[i].op = "take_photo" /\ calls[i].b = 1)
       => /\ sessionFlushed
          /\ \A j \in DOMAIN calls :
               /\ calls[j].op = "sendAudioData" => j < i
               /\ calls[j].op = "photoChunk" => j > i

\* one tick that sent the session audio, then took the session's photo and
\* sent its first chunk
C9_Witness ==
  \E i, j, k \in DOMAIN calls :
    /\ i < j /\ j < k
    /\ calls[i].op = "sendAudioData" /\ calls[i].a > 0
    /\ calls[j].op = "take_photo" /\ calls[j].b = 1
    /\ calls[k].op = "photoChunk" /\ calls[k].a = 0

\* C10: when the single-shot capture made for the Processing step fails, no
\* upload is started and no request stays pending, and the next tick returns
\* to Idle without calling take_photo again.
C10_CaptureFailure ==
  [][/\ (FailedSessionCapture(calls') /\ captureInterval' = 0)
        => /\ touchState' = TOUCH_PROCESSING
           /\ ~photoDataUploading' /\ fb' = NoFrame
           /\ ~isCapturingPhotos'
           /\ ~HasCall(calls', "photoChunk")
     /\ (FailedSessionCapture(calls) /\ captureInterval = 0 /\ TickStep)
        => /\ touchState' = TOUCH_IDLE
           /\ ~HasCall(calls', "take_photo")
           /\ ~photoDataUploading']_vars

\* the session's single-shot capture has just failed: nothing held, nothing
\* pending, the machine still in Processing
C10_Witness ==
  /\ FailedSessionCapture(calls)
  /\ captureInterval = 0
  /\ touchState = TOUCH_PROCESSING
  /\ sessionFlushed /\ sessionCaptures = 1
  /\ fb = NoFrame /\ ~photoDataUploading /\ ~isCapturingPhotos

\* the session began early enough for the model's clock to cover its end:
\* Processing is entered at the safety ceiling at the latest, the flush and
\* the capture take the next tick, the return to Idle the one after
SessionInHorizon ==
  /\ touchState \in {TOUCH_RECORDING_ACTIVE, TOUCH_RECORDING_SILENCE,
                     TOUCH_PROCESSING}
  /\ touchRecordingStartTime + TOUCH_ACTIVATION_TIMEOUT + 2 <= config.horizon

\* C11 as claimed: once a recording session has started, if ticks keep
\* running the touch state eventually returns to Idle, whatever the link
\* connection state.
C11_EventuallyIdle == SessionInHorizon ~> (touchState = TOUCH_IDLE)

\* the same with the link kept: a session the clock covers returns to Idle
\* unless the link goes down on the way
LinkedEventuallyIdle ==
  [](SessionInHorizon /\ connected
     => <>(touchState = TOUCH_IDLE \/ ~connected))

CeilDiv(n, d) == (n + d - 1) \div d

\* the calls of that name in a log
CallsOf(c, op) == {i \in DOMAIN c : c[i].op = op}

\* C12: an upload of N bytes drains in ceil(N/200) data chunks and then one
\* end marker: every chunk carries the next frame index (0 for the first
\* chunk of a capture) and the next at most 200 bytes, so that after chunk k
\* bytes 0..min(200(k+1),N)-1 have been sent in order; the marker is sent by
\* a later tick than the last chunk, when all N bytes went out in
\* ceil(N/200) chunks, and it ends the upload.
C12_ChunkedUpload ==
  [][/\ \A i \in CallsOf(calls', "photoChunk") :
          /\ calls'[i].a = sent_photo_frames' - 1
          /\ calls'[i].a =
               (IF HasCall(calls', "take_photo") THEN 0 ELSE sent_photo_frames)
          /\ calls'[i].b = Min(PHOTO_CHUNK, fb' - PHOTO_CHUNK * calls'[i].a)
          /\ calls'[i].b >= 1
          /\ sent_photo_bytes' = PHOTO_CHUNK * calls'[i].a + calls'[i].b
          /\ photoDataUploading'
     /\ HasCall(calls', "photoEnd")
        => /\ photoDataUploading /\ fb # NoFrame
           /\ sent_photo_bytes = fb
           /\ sent_photo_frames = CeilDiv(fb, PHOTO_CHUNK)
           /\ Cardinality(CallsOf(calls', "photoEnd")) = 1
           /\ ~HasCall(calls', "photoChunk")
           /\ ~photoDataUploading' /\ fb' = NoFrame]_vars

\* a 1000-byte frame has just been completed: 5 chunks, then the marker
C12_Witness ==
  /\ HasCall(calls, "photoEnd")
  /\ \E i \in CallsOf(calls, "fb_return") : calls[i].a = 1000
  /\ sent_photo_frames = 5
  /\ sent_photo_bytes = 1000

\* the photo notifications (data chunks and end markers) of a log
PhotoNotifications(c) == CallsOf(c, "photoChunk") \cup CallsOf(c, "photoEnd")

\* C13: a tick of loop_app sends at most one photo notification, a data
\* chunk of at most 200 bytes or the end marker, so the upload cursor
\* advances by at most 200 bytes per tick; and where the audio path is on,
\* the tick polls the microphone exactly once, before that notification, so
\* one audio poll lies between any two consecutive photo chunks.
C13_OneChunkPerTick ==
  [][TickStep
     => /\ Cardinality(PhotoNotifications(calls')) <= 1
        /\ \A i \in CallsOf(calls', "photoChunk") :
             /\ calls'[i].b <= PHOTO_CHUNK
             /\ sent_photo_bytes'
                  - (IF HasCall(calls', "take_photo") THEN 0
                     ELSE sent_photo_bytes) <= PHOTO_CHUNK
        /\ (microphoneInitialized' /\ voiceActivationEnabled')
           => /\ Cardinality(CallsOf(calls', "i2s_read")) = 1
              /\ \A i \in CallsOf(calls', "i2s_read") :
                   \A j \in PhotoNotifications(calls') : i < j]_vars

\* a tick in the middle of a 1000-byte upload: one audio poll, then the
\* third chunk, 400 bytes still to go
C13_Witness ==
  /\ fb = 1000 /\ photoDataUploading
  /\ sent_photo_bytes = 600
  /\ calls = <<Call("i2s_read", 0, 0), Call("photoChunk", 2, PHOTO_CHUNK)>>

\* frames held: 1 while fb points to a frame, else 0
Held(f) == IF f = NoFrame THEN 0 ELSE 1

\* the captures that delivered a frame, in a log
Captured(c) == {i \in CallsOf(c, "take_photo") : c[i].a = 1}

\* C14: every frame obtained by a successful capture is given back exactly
\* once: in every step the frames held change by the captures minus the
\* releases of that step, each release gives back a frame that is held at
\* that point (none is released twice), and each capture finds no frame
\* held (none is overwritten and leaked); a frame not yet released is the one
\* fb points to.
C14_ReleasedOnce ==
  [][LET heldAt(i) ==
           Held(fb) + Cardinality({j \in Captured(calls') : j < i})
                    - Cardinality({j \in CallsOf(calls', "fb_return") : j < i})
     IN /\ Held(fb') = Held(fb) + Cardinality(Captured(calls'))
                                - Cardinality(CallsOf(calls', "fb_return"))
        /\ \A i \in CallsOf(calls', "fb_return") :
             heldAt(i) = 1 /\ calls'[i].a # NoFrame
        /\ \A i \in CallsOf(calls', "take_photo") : heldAt(i) = 0]_vars

\* the host has just stopped an upload half way: the frame went back
C14_Witness ==
  /\ calls = <<Call("fb_return", 1000, 0)>>
  /\ fb = NoFrame /\ ~photoDataUploading
  /\ sent_photo_bytes = 0

\* C15: the write cursor of the session buffer never exceeds
\* TOUCH_AUDIO_MAX_BYTES; a step adds at most one block buffer to it, and
\* once it stands at the capacity no tick moves it further (it only goes
\* back to 0, by the flush or by the start of a new session).
C15_CursorBounded ==
  [][/\ touchAudioAccumIndex' >= 0
     /\ touchAudioAccumIndex' <= TOUCH_AUDIO_MAX_BYTES
     /\ touchAudioAccumIndex' - touchAudioAccumIndex <= AudioBufferBytes
     /\ touchAudioAccumIndex = TOUCH_AUDIO_MAX_BYTES
        => touchAudioAccumIndex' \in {TOUCH_AUDIO_MAX_BYTES, 0}]_vars

\* the buffer is full and the session goes on: two ticks after the release
\* at least, with the third poll of the session just made
C15_Witness ==
  /\ touchAudioAccumIndex = TOUCH_AUDIO_MAX_BYTES
  /\ recordingCommand /\ IsRecording(touchState)
  /\ Elapsed(now, touchRecordingStartTime) >= 2
  /\ HasCall(calls, "i2s_read")

\* C16: no step lowers peakAudioLevel (ticks, link events and audio control
\* commands alike), and after every step peakAudioLevel >= currentAudioLevel.
C16_PeakMonotonic ==
  [][/\ peakAudioLevel' >= peakAudioLevel
     /\ peakAudioLevel' >= currentAudioLevel']_vars

\* a softer block has been processed after a louder one
C16_Witness ==
  /\ currentAudioLevel > 0
  /\ peakAudioLevel > currentAudioLevel
  /\ HasCall(calls, "i2s_read")

\* C17: a tick whose poll reads an all-zero block of 1, 2 or 3 samples
\* leaves currentAudioLevel at 0 and peakAudioLevel as it was.
C17_ZeroBlock ==
  [][(\E i \in CallsOf(calls', "i2s_read") :
         calls'[i].a > 0 /\ calls'[i].b = 1)
     => /\ currentAudioLevel' = 0
        /\ peakAudioLevel' = peakAudioLevel]_vars

\* three zero samples read after a louder block: the level is back at 0,
\* the peak stands
C17_Witness ==
  /\ calls = <<Call("i2s_read", 3, 1)>>
  /\ currentAudioLevel = 0
  /\ peakAudioLevel > SILENCE_THRESHOLD

\* the Processing step flushes a session that accumulated nothing
EmptyFlush ==
  /\ TickStep
  /\ touchState = TOUCH_PROCESSING /\ recordingCommand
  /\ touchAudioAccumIndex = 0

\* C18: flushing an empty session sends no audio (the fallback buffer is
\* empty too), leaves both cursors at 0 and recordingCommand cleared, and
\* still makes the photo request (pending after the tick, or already taken
\* by the capture block of the same tick); the tick after the request has
\* been consumed returns to Idle, as for a session with audio.
C18_EmptyFlush ==
  [][/\ EmptyFlush
        => /\ ~HasCall(calls', "sendAudioData")
           /\ touchAudioAccumIndex' = 0 /\ audioBufferIndex' = 0
           /\ ~recordingCommand' /\ sessionFlushed'
           /\ touchState' = TOUCH_PROCESSING
           /\ \/ isCapturingPhotos' /\ touchPhotoRequest'
              \/ \E i \in CallsOf(calls', "take_photo") : calls'[i].b = 1
     /\ (TickStep /\ touchState = TOUCH_PROCESSING /\ sessionFlushed
         /\ ~recordingCommand /\ ~isCapturingPhotos)
        => touchState' = TOUCH_IDLE]_vars

\* back in Idle after a session without a microphone: nothing was
\* accumulated, the flush ran, the photo was taken
C18_Witness ==
  /\ ~microphoneInitialized
  /\ touchState = TOUCH_IDLE
  /\ sessionFlushed /\ sessionCaptures = 1
  /\ touchAudioAccumIndex = 0 /\ audioBufferIndex = 0
  /\ touchRecordingStartTime > 0

\* C19 as claimed: every Detected -> RecordingActive transition leaves
\* recordingCommand true, listeningForWakeWord false and the session buffer
\* free of bytes of an earlier session: after the tick the cursor holds at
\* most the block polled in that same tick.
C19_FreshSession ==
  [][(touchState = TOUCH_DETECTED /\ touchState' = TOUCH_RECORDING_ACTIVE)
     => /\ recordingCommand'
        /\ ~listeningForWakeWord'
        /\ touchAudioAccumIndex' <= AudioBufferBytes]_vars

\* C20 as claimed: Idle -> Detected is taken only when the touch has been
\* sensed, in a run of readings, for longer than the debounce interval.
C20_HeldForDebounce ==
  [][(touchState = TOUCH_IDLE /\ touchState' = TOUCH_DETECTED)
     => /\ touchSince # -1
        /\ Elapsed(now', touchSince) > TOUCH_DEBOUNCE_MS]_vars

\* C20 amended: a tick in Idle moves to Detected exactly when it reads the
\* sensor as touched and more than TOUCH_DEBOUNCE_MS has passed since
\* lastTouchTime, the last accepted touch; how long the touch has been
\* sensed plays no part, a single reading is enough.
C20_FirstReadingAccepted ==
  [][(TickStep /\ touchState = TOUCH_IDLE)
     => (touchState' = TOUCH_DETECTED
         <=> (touchSince' # -1
              /\ Elapsed(now', lastTouchTime) > TOUCH_DEBOUNCE_MS))]_vars

\* Detected entered on the first touched reading of a run
C20_Witness ==
  /\ touchState = TOUCH_DETECTED
  /\ touchSince = now /\ lastTouchTime = now
  /\ now > TOUCH_DEBOUNCE_MS

\* a tick that finds the machine in RecordingActive below the safety ceiling
ActiveBelowCeiling ==
  /\ TickStep
  /\ touchState = TOUCH_RECORDING_ACTIVE
  /\ Elapsed(now', touchRecordingStartTime) < TOUCH_ACTIVATION_TIMEOUT

\* C21: in RecordingActive below the safety ceiling the tick moves to
\* RecordingSilence, with silenceStartTime = now, exactly when the level it
\* reads is <= SILENCE_THRESHOLD and no silence timer is running; a level
\* equal to the threshold is silence, and a level above it keeps the machine
\* in RecordingActive with no timer.
C21_SilenceStarts ==
  [][ActiveBelowCeiling
     => /\ touchState' \in {TOUCH_RECORDING_ACTIVE, TOUCH_RECORDING_SILENCE}
        /\ touchState' = TOUCH_RECORDING_SILENCE
           <=> (currentAudioLevel <= SILENCE_THRESHOLD /\ silenceStartTime = 0)
        /\ touchState' = TOUCH_RECORDING_SILENCE => silenceStartTime' = now'
        /\ currentAudioLevel > SILENCE_THRESHOLD
           => (touchState' = TOUCH_RECORDING_ACTIVE /\ silenceStartTime' = 0)]_vars

\* the silence timer has just been started on a level equal to the
\* threshold: the poll of this tick read nothing, so the level standing is
\* the one the handler read
C21_Witness ==
  /\ touchState = TOUCH_RECORDING_SILENCE
  /\ silenceStartTime = now
  /\ Elapsed(now, touchRecordingStartTime) < TOUCH_ACTIVATION_TIMEOUT
  /\ currentAudioLevel = SILENCE_THRESHOLD /\ currentAudioLevel > 0
  /\ calls = <<Call("i2s_read", 0, 0)>>

\* the recording ends below the safety ceiling
EndsBelowCeiling ==
  /\ IsRecording(touchState)
  /\ touchState' = TOUCH_PROCESSING
  /\ Elapsed(now', touchRecordingStartTime) < TOUCH_ACTIVATION_TIMEOUT

\* C22: in RecordingSilence a level above SILENCE_THRESHOLD takes the
\* machine back to RecordingActive and clears the silence timer; the next
\* timer is started by a pass of the next silent stretch, never before that
\* stretch; and a recording ends below the safety ceiling only on a silent
\* stretch that has lasted TOUCH_SILENCE_DURATION_MS, so silent stretches
\* that are each shorter never end it.
C22_Hysteresis ==
  [][/\ (TickStep /\ touchState = TOUCH_RECORDING_SILENCE
         /\ currentAudioLevel > SILENCE_THRESHOLD
         /\ Elapsed(now', touchRecordingStartTime) < TOUCH_ACTIVATION_TIMEOUT)
        => (touchState' = TOUCH_RECORDING_ACTIVE /\ silenceStartTime' = 0)
     /\ touchState' = TOUCH_RECORDING_SILENCE
        => /\ silentSince' # -1
           /\ silenceStartTime' >= silentSince'
           /\ resumedAt' # -1 => silenceStartTime' > resumedAt'
     /\ EndsBelowCeiling
        => /\ silentSince' # -1
           /\ Elapsed(now', silentSince') >= TOUCH_SILENCE_DURATION_MS]_vars

\* a recording ended by its second silent stretch: the first was cut by
\* speech, the timer ran from the start of the second
C22_Witness ==
  /\ touchState = TOUCH_PROCESSING /\ recordingCommand
  /\ Elapsed(now, touchRecordingStartTime) < TOUCH_ACTIVATION_TIMEOUT
  /\ resumedAt # -1 /\ tooShortAt = -1
  /\ silentSince > resumedAt
  /\ silenceStartTime = silentSince
  /\ Elapsed(now, silenceStartTime) >= TOUCH_SILENCE_DURATION_MS

\* C23: when the silence timer has expired but the total recording time is
\* below TOUCH_MIN_RECORDING_MS, the tick does not end the session: it
\* leaves the machine in RecordingActive with the silence timer cleared;
\* and a session that was judged too short ends below the safety ceiling
\* only on a timer started after that judgement and run for a full
\* TOUCH_SILENCE_DURATION_MS.
C23_TooShortRestart ==
  [][/\ TooShortCase
        => /\ touchState' = TOUCH_RECORDING_ACTIVE
           /\ silenceStartTime' = 0
     /\ (EndsBelowCeiling /\ tooShortAt # -1)
        => /\ silenceStartTime > tooShortAt
           /\ Elapsed(now', silenceStartTime) >= TOUCH_SILENCE_DURATION_MS
           /\ Elapsed(now', tooShortAt) > TOUCH_SILENCE_DURATION_MS]_vars

\* a session judged too short once and ended, below the ceiling, by a
\* later full silence
C23_Witness ==
  /\ touchState = TOUCH_PROCESSING /\ recordingCommand
  /\ Elapsed(now, touchRecordingStartTime) < TOUCH_ACTIVATION_TIMEOUT
  /\ tooShortAt # -1
  /\ Elapsed(tooShortAt, touchRecordingStartTime) < TOUCH_MIN_RECORDING_MS
  /\ silenceStartTime > tooShortAt
  /\ Elapsed(now, silenceStartTime) >= TOUCH_SILENCE_DURATION_MS

\* the poll of the step read a block that holds samples
ReadSamples(c) == \E i \in CallsOf(c, "i2s_read") : c[i].a > 0

BytesRead(call) == 2 * call.a

\* C25 as claimed: a tick in RecordingActive or RecordingSilence whose poll
\* read a block of k bytes advances the cursor by min(k, remaining
\* capacity), never by more bytes than were read.
C25_AppendsPolledBlock ==
  [][(TickStep /\ IsRecording(touchState) /\ IsRecording(touchState')
      /\ recordingCommand /\ ReadSamples(calls'))
     => \A i \in CallsOf(calls', "i2s_read") :
          touchAudioAccumIndex' - touchAudioAccumIndex
            = Min(BytesRead(calls'[i]),
                  TOUCH_AUDIO_MAX_BYTES - touchAudioAccumIndex)]_vars

\* a tick that finds the machine recording with the session buffer full
FullTick ==
  /\ TickStep
  /\ IsRecording(touchState)
  /\ touchAudioAccumIndex = TOUCH_AUDIO_MAX_BYTES

\* C26: with the session buffer full the recording goes on: the tick leaves
\* the cursor at the capacity, the touch state and the timers come out as
\* the handler computes them for the same globals with an empty buffer, and
\* the level and the peak follow the block polled as they always do.
C26_OverflowGoesOn ==
  [][FullTick
     => LET free == handleTouchSensor(
                      [Cur EXCEPT !.touchAudioAccumIndex = 0], now', FALSE)
        IN /\ touchAudioAccumIndex' = TOUCH_AUDIO_MAX_BYTES
           /\ touchState' = free.touchState
           /\ touchState' \in {TOUCH_RECORDING_ACTIVE, TOUCH_RECORDING_SILENCE,
                                TOUCH_PROCESSING}
           /\ silenceStartTime' = free.silenceStartTime
           /\ touchRecordingStartTime' = free.touchRecordingStartTime
           /\ currentAudioLevel' = (IF heard' = <<>> THEN currentAudioLevel
                                    ELSE AudioLevel(heard'))
           /\ peakAudioLevel' = (IF currentAudioLevel' > peakAudioLevel
                                 THEN currentAudioLevel'
                                 ELSE peakAudioLevel)]_vars

\* a recording whose buffer was full from its second poll on, ended by the
\* silence rule below the ceiling after speech had been heard
C26_Witness ==
  /\ touchState = TOUCH_PROCESSING /\ recordingCommand
  /\ touchAudioAccumIndex = TOUCH_AUDIO_MAX_BYTES
  /\ Elapsed(now, touchRecordingStartTime) < TOUCH_ACTIVATION_TIMEOUT
  /\ Elapsed(now, silenceStartTime) >= TOUCH_SILENCE_DURATION_MS
  /\ peakAudioLevel > SILENCE_THRESHOLD
  /\ heard # <<>>

\* the poll of the step returned no data (bytes_read = 0 or a read error)
EmptyRead(c) == \E i \in CallsOf(c, "i2s_read") : c[i].a = 0

\* C27: a tick whose audio read returns no data leaves currentAudioLevel
\* and peakAudioLevel as they were, and leaves the session cursor and the
\* touch state as handleTouchSensor set them earlier in the same tick.
C27_EmptyReadNoOp ==
  [][(TickStep /\ EmptyRead(calls'))
     => LET h == handleTouchSensor(Cur, now', touchSince' # -1)
        IN /\ currentAudioLevel' = currentAudioLevel
           /\ peakAudioLevel' = peakAudioLevel
           /\ touchAudioAccumIndex' = h.touchAudioAccumIndex
           /\ audioBufferIndex' = h.audioBufferIndex
           /\ touchState' = h.touchState]_vars

\* a recording tick whose poll came back empty: the session still holds the
\* one block of the release tick and the level of that block stands
C27_Witness ==
  /\ IsRecording(touchState) /\ recordingCommand
  /\ calls = <<Call("i2s_read", 0, 0)>>
  /\ Elapsed(now, touchRecordingStartTime) >= 1
  /\ touchAudioAccumIndex = AudioBufferBytes
  /\ currentAudioLevel > 0

\* C28: whenever a photo upload is in progress between two steps
\* (photoDataUploading is true), a frame is held (fb is not null) and the
\* upload cursor lies within it, 0 <= sent_photo_bytes <= fb->len; this
\* holds after any sequence of ticks, captures, link events and photo
\* control commands.
C28_UploadHoldsFrame ==
  photoDataUploading
    => /\ fb # NoFrame
       /\ sent_photo_bytes >= 0
       /\ sent_photo_bytes <= fb

\* an upload commanded by the host in interval mode with every byte of the
\* 201-byte frame sent and the end marker still to come
C28_Witness ==
  /\ photoDataUploading
  /\ captureInterval > 0
  /\ fb = 201 /\ sent_photo_bytes = fb
  /\ sent_photo_frames = 2

\* the globals of the program other than the button flag
sessionVars ==
  <<touchState, lastTouchTime, touchRecordingStartTime, silenceStartTime,
    microphoneInitialized, voiceActivationEnabled, listeningForWakeWord,
    recordingCommand, currentAudioLevel, peakAudioLevel,
    touchAudioAccumIndex, audioBufferIndex, connected, isCapturingPhotos,
    captureInterval, lastCaptureTime, photoDataUploading, fb,
    sent_photo_bytes, sent_photo_frames>>

\* C29: the touch state changes only in a tick, where handleTouchSensor
\* runs: no BLE callback (connect, disconnect, photo control, audio
\* control) and no button interrupt changes it, and the step that raises
\* buttonPressed writes no other global.
C29_TouchStateOwner ==
  [][/\ touchState' # touchState => TickStep
     /\ (buttonPressed' /\ ~buttonPressed) => UNCHANGED sessionVars]_vars

\* in the middle of a recording the host has written both control
\* characteristics and the button interrupt has fired
C29_Witness ==
  /\ IsRecording(touchState)
  /\ buttonPressed
  /\ connected /\ isCapturingPhotos
  /\ microphoneInitialized /\ ~voiceActivationEnabled

\* C30: there is no way to cancel a recording: from RecordingActive or
\* RecordingSilence the touch state goes nowhere but to the other recording
\* state or to Processing, to Processing only in a tick and only at the
\* safety ceiling or by the silence rule; whatever the touch sensor reads
\* in that tick the outcome is the same, and a step that raises or consumes
\* the button flag decides nothing of it.
C30_NoCancel ==
  [][IsRecording(touchState)
     => /\ touchState' \in {TOUCH_RECORDING_ACTIVE, TOUCH_RECORDING_SILENCE,
                             TOUCH_PROCESSING}
        /\ touchState' = TOUCH_PROCESSING
           => /\ TickStep
              /\ \/ Elapsed(now', touchRecordingStartTime)
                      >= TOUCH_ACTIVATION_TIMEOUT
                 \/ /\ touchState = TOUCH_RECORDING_SILENCE
                    /\ currentAudioLevel <= SILENCE_THRESHOLD
                    /\ Elapsed(now', silenceStartTime)
                         >= TOUCH_SILENCE_DURATION_MS
                    /\ Elapsed(now', touchRecordingStartTime)
                         >= TOUCH_MIN_RECORDING_MS
        /\ TickStep
           => \A touched \in BOOLEAN :
                handleTouchSensor(Cur, now', touched).touchState = touchState'
        /\ ~TickStep => touchState' = touchState]_vars

\* a recording in its silence state goes on with a button event pending
C30_Witness ==
  /\ touchState = TOUCH_RECORDING_SILENCE
  /\ recordingCommand
  /\ buttonPressed
  /\ silenceStartTime > touchRecordingStartTime

\* C31: the session audio goes to the transport at most once and is never
\* retried: a pass makes at most one sendAudioData call; the pass of
\* Processing that finds recordingCommand set leaves the cursor at 0 and the
\* command cleared whether or not the link is up, hands the whole session
\* (cursor bytes) to sendAudioData when the link is up and sends nothing
\* when it is down; once the session is flushed no later call carries
\* session audio, the cursor staying at 0 until the next session
C31_FlushOnce ==
  [][TickStep =>
       LET sends == CallsOf(calls', "sendAudioData")
           flush == touchState = TOUCH_PROCESSING /\ recordingCommand
       IN /\ Cardinality(sends) <= 1
          /\ sends # {} => flush /\ connected
          /\ flush
             => /\ touchAudioAccumIndex' = 0
                /\ ~recordingCommand'
                /\ sessionFlushed'
                /\ ~connected => sends = {}
                /\ (connected /\ touchAudioAccumIndex > 0)
                   => \E i \in sends : calls'[i].a = touchAudioAccumIndex
          /\ (sessionFlushed /\ touchState = TOUCH_PROCESSING)
             => touchAudioAccumIndex = 0 /\ touchAudioAccumIndex' = 0]_vars

\* a session with audio in its buffer was flushed with the link down:
\* nothing was sent and the cursor is back at 0
C31_Witness ==
  /\ droppedAudio /\ sessionFlushed
  /\ touchState = TOUCH_PROCESSING
  /\ touchAudioAccumIndex = 0
  /\ ~HasCall(calls, "sendAudioData")

\* C32: no photo chunk is sent while the touch state is RecordingActive or
\* RecordingSilence: no pass whose touch handler leaves the machine in a
\* recording state notifies a photo chunk
C32_NoChunkWhileRecording ==
  [][(TickStep /\ IsRecording(touchState'))
       => ~HasCall(calls', "photoChunk")]_vars

\* C33: outside a session the session buffer is empty and no recording is
\* commanded: every pass that ends in Idle or in Detected ends with the
\* cursor at 0 and recordingCommand false
C33_EmptyOutsideSession ==
  [][(TickStep /\ touchState' \in {TOUCH_IDLE, TOUCH_DETECTED})
       => (touchAudioAccumIndex' = 0 /\ ~recordingCommand')]_vars

\* C34: every started upload terminates within ceil(N/200)+1 further
\* passes, link or no link: an upload of a frame of N bytes in progress has
\* taken fewer further passes than that; every further pass counts; and the
\* pass that clears photoDataUploading sends the end marker and releases the
\* frame, at most ceil(N/200)+1 passes after the one that started the upload
C34_UploadTerminates ==
  [][/\ photoDataUploading'
        => /\ fb' # NoFrame
           /\ uploadTicks' < CeilDiv(fb', PHOTO_CHUNK) + 1
     /\ (TickStep /\ photoDataUploading)
        => /\ uploadTicks' = uploadTicks + 1
           /\ ~photoDataUploading'
              => /\ HasCall(calls', "photoEnd")
                 /\ fb' = NoFrame
                 /\ uploadTicks' <= CeilDiv(fb, PHOTO_CHUNK) + 1]_vars

\* the upload of a 1000-byte frame has ended with the link down, on the
\* fifth pass after the one that took the photo
C34_Witness ==
  /\ ~connected /\ ~photoDataUploading /\ fb = NoFrame
  /\ HasCall(calls, "photoEnd")
  /\ sent_photo_bytes = 1000
  /\ uploadTicks = 5

\* C35: handlePhotoControl with a recognised value (-1, 0, 5..300) leaves
\* photoDataUploading false, sent_photo_bytes and sent_photo_frames at 0 and
\* no frame held, returning the frame it found and sending no end marker;
\* with any other value it changes nothing.  Stated of every value an
\* int8_t can hold, in every state the upload model reaches
C35_PhotoControlResets ==
  \A v \in Int8Values :
    LET r == handlePhotoControl(Cur, v)
    IN IF v = -1 \/ v = 0 \/ v \in 5..300
       THEN /\ ~r.photoDataUploading
            /\ r.sent_photo_bytes = 0 /\ r.sent_photo_frames = 0
            /\ r.fb = NoFrame
            /\ r.calls = IF fb = NoFrame THEN <<>>
                         ELSE <<Call("fb_return", fb, 0)>>
       ELSE r = Cur

\* an interval command has abandoned the upload of a 201-byte frame: the
\* frame went back without an end marker, the counters are 0
C35_Witness ==
  /\ calls = <<Call("fb_return", 201, 0)>>
  /\ ~photoDataUploading /\ fb = NoFrame
  /\ sent_photo_bytes = 0 /\ sent_photo_frames = 0
  /\ isCapturingPhotos /\ captureInterval = PHOTO_CAPTURE_INTERVAL_MS

\* C38: the silence timer matches the recording state: in RecordingActive
\* no timer runs (silenceStartTime is 0); in RecordingSilence a timer runs
\* that was started at or after the start of the recording and not after
\* the last clock value read
C38_TimerMatchesState ==
  /\ touchState = TOUCH_RECORDING_ACTIVE => silenceStartTime = 0
  /\ touchState = TOUCH_RECORDING_SILENCE
       => /\ silenceStartTime # 0
          /\ silenceStartTime >= touchRecordingStartTime
          /\ silenceStartTime <= now

\* RecordingSilence for the second time in a session: the first timer was
\* cleared when the recording was judged too short, the timer running now
\* was started later than the recording
C38_Witness ==
  /\ touchState = TOUCH_RECORDING_SILENCE
  /\ tooShortAt # -1
  /\ silenceStartTime > tooShortAt
  /\ tooShortAt > touchRecordingStartTime

C36_PowerOffNeedsLongHold ==
  [][(ledMode # LED_POWER_OFF_SEQUENCE /\ ledMode' = LED_POWER_OFF_SEQUENCE)
       => heldLong']_vars

\* C37: once ledMode is LED_POWER_OFF_SEQUENCE it stays so until
\* shutdownDevice is called: no step of a device that is still running
\* moves ledMode away from the power-off sequence
C37_PowerOffStays ==
  [][(ledMode = LED_POWER_OFF_SEQUENCE /\ ~deviceOff')
       => ledMode' = LED_POWER_OFF_SEQUENCE]_vars

====
